---- MODULE Spec2Model ----
(***************************************************************************)
(* A model of sage.combinat.backtrack: the lazy enumeration of a set given *)
(* by seeds and a successor function (search_forest_iterator, SearchForest,*)
(* RecursiveSet and its graded and symmetric subclasses).                  *)
(*                                                                         *)
(* A Python list is a sequence.  A Python set is a sequence without        *)
(* repetition whose order is chosen arbitrarily when the set is built: the *)
(* iteration order of a set is unspecified, and fixed while the set is not *)
(* modified.  A generator is its local variables and a position (pc); an   *)
(* action is one pass of its loop body.                                    *)
(***************************************************************************)
EXTENDS Integers, Sequences, FiniteSets, TLC

VARIABLES
  seeds,          \* self._seeds / self._roots: the list of seeds (roots)
  succ,           \* self._succ / self.children: node -> list of successors
  args,           \* the arguments RecursiveSet(...) was called with
  cls,            \* the class of the object the factory returned, or the error it raised
  algorithm,      \* self._algorithm
  max_depth,      \* self._max_depth (Inf when the object keeps none)
  pc,             \* position of the running iterator
  stack,          \* search_forest_iterator: the list of cursors
  out,            \* the elements yielded so far, in order
  calls,          \* the arguments succ / children was invoked with
  known,          \* naive and breadth first search: the elements seen
  todo,           \* naive search: the elements still to visit
  current_level,  \* breadth first search: the level being yielded
  idx,            \* position of the for loop in current_level
  next_level,     \* breadth first search: the level being built
  depth,          \* breadth first search: depth of current_level / counter i
  A,              \* symmetric level_iterator: the previous level
  B,              \* symmetric level_iterator: the current level
  levels,         \* the levels yielded so far by level_iterator
  post_process,   \* self.post_process: node -> value or None (<<>> when absent)
  method,         \* the method of the object that was called
  elt,            \* the argument of __contains__
  result,         \* the value __contains__ returned
  position,       \* search_forest_iterator: the end of the stack that is polled
  other           \* the locals of a second, suspended iterator on the object (<<>>: none)

\* the attributes of the object, and the locals of the suspended iterator: no
\* step of the running iterator assigns them
object == <<seeds, succ, args, cls, algorithm, max_depth, post_process, other>>

vars == <<object, pc, stack, out, calls, known, todo, current_level, idx,
          next_level, depth, A, B, levels, method, elt, result, position>>

-----------------------------------------------------------------------------
(* Bounds of the models.                                                   *)

\* number of nodes of the forests of SpecForest
ForestNodes == 4
\* largest finite max_depth argument tried
MaxDepthArg == 1

\* number of nodes of the relations of SpecNaive and SpecBreadth
GraphNodes == 3
\* largest number of edges (pairs x, y with y in succ(x)) of these relations
MaxEdges == 3
\* largest number of seeds
MaxSeeds == 2

\* number of nodes and largest number of undirected edges (loops included)
\* of the symmetric relations of SpecSym
SymNodes == 4
SymEdges == 3

\* len(l) < 3 in the doctest of search_forest_iterator
DoctestLen == 3

\* the seed and the number of levels of the doctest of
\* RecursiveSet_symmetric.level_iterator
DoctestSeed == 10
DoctestLevels == 5

-----------------------------------------------------------------------------
(* Python values and helpers.                                              *)

\* Python's None; the nodes of the graph models are the integers 1..n
None == 0

\* float("inf"), the default of max_depth
Inf == -1

\* depth <= max_depth, i < max_depth with max_depth possibly float("inf")
Leq(d, m) == m = Inf \/ d <= m
Less(d, m) == m = Inf \/ d < m

Range(s) == {s[i] : i \in 1..Len(s)}

Min(S) == CHOOSE m \in S : \A x \in S : m <= x

\* a set of integers as the ascending list
RECURSIVE Asc(_)
Asc(S) == IF S = {} THEN <<>> ELSE <<Min(S)>> \o Asc(S \ {Min(S)})

\* a set of integers as the descending list
RECURSIVE Desc(_)
Desc(S) == IF S = {} THEN <<>> ELSE Desc(S \ {Min(S)}) \o <<Min(S)>>

\* the possible iteration orders of a Python set with elements S
Orders(S) ==
  {s \in [1..Cardinality(S) -> S] : \A i, j \in 1..Cardinality(S) : i # j => s[i] # s[j]}

\* list.pop(i) for a 1-based position i: the list without its i-th element
RemoveAt(s, i) == SubSeq(s, 1, i - 1) \o SubSeq(s, i + 1, Len(s))

-----------------------------------------------------------------------------
(* RecursiveSet.__classcall_private__: the factory.                        *)

\* the class returned for a structure tag (the string "None" stands for structure=None)
ClassOf(structure) ==
  CASE structure = "None" -> "RecursiveSet"
    [] structure = "symmetric" -> "RecursiveSet_symmetric"
    [] structure = "forest" -> "SearchForest"
    [] structure = "graded" -> "RecursiveSet_graded"
    [] OTHER -> "ValueError"

\* a slip: one default, 'depth', for every structure
AlgorithmOfSearchForest(structure, alg) == IF alg # "None" THEN alg ELSE "depth"

\* the algorithm of the returned object: the default when algorithm is None
AlgorithmOf(structure, alg) ==
  IF alg # "None" THEN alg
  ELSE CASE structure = "None" -> "naive"
         [] structure = "symmetric" -> "breadth"
         [] structure = "forest" -> "depth"
         [] structure = "graded" -> "breadth"
         [] OTHER -> "None"

\* the classes whose objects RecursiveSet.__init__ initializes
RecursiveSetClasses == {"RecursiveSet", "RecursiveSet_symmetric", "RecursiveSet_graded"}

\* assert algorithm in ['naive', 'depth', 'breadth'] in RecursiveSet.__init__;
\* SearchForest.__init__ has no such test
InitOf(c, alg) ==
  IF c \in RecursiveSetClasses /\ alg \notin {"naive", "depth", "breadth"}
  THEN "AssertionError" ELSE c

\* the max_depth the returned object keeps: SearchForest is not given it
MaxDepthOf(structure, md) == IF structure = "forest" THEN Inf ELSE md

\* the state after __init__: an object of class c that no iterator runs on
Object(sd, sc, c, alg, md, given, pp) ==
  /\ post_process = pp
  /\ method = "None"
  /\ elt = None
  /\ result = "None"
  /\ position = 0
  /\ seeds = sd
  /\ succ = sc
  /\ args = given
  /\ cls = c
  /\ algorithm = alg
  /\ max_depth = md
  /\ pc = "constructed"
  /\ stack = <<>>
  /\ out = <<>>
  /\ calls = {}
  /\ known = {}
  /\ todo = {}
  /\ current_level = <<>>
  /\ idx = 1
  /\ next_level = {}
  /\ depth = 0
  /\ A = {}
  /\ B = <<>>
  /\ levels = <<>>
  /\ other = <<>>

\* the state after RecursiveSet(seeds, succ, structure, algorithm, max_depth)
Constructed(sd, sc, structure, alg, md) ==
  Object(sd, sc, InitOf(ClassOf(structure), AlgorithmOf(structure, alg)),
         AlgorithmOf(structure, alg), MaxDepthOf(structure, md),
         [structure |-> structure, algorithm |-> alg, max_depth |-> md], <<>>)

\* the state after TransitiveIdealGraded(succ, generators, max_depth)
TransitiveIdealGraded(sc, generators, md) ==
  Object(generators, sc, "TransitiveIdealGraded", "breadth", md, [max_depth |-> md], <<>>)

\* the state after TransitiveIdeal(succ, generators): RecursiveSet.__init__
\* with its defaults, algorithm 'depth' and no max_depth
TransitiveIdeal(sc, generators) ==
  Object(generators, sc, "TransitiveIdeal", "depth", Inf, <<>>, <<>>)

\* the max_depth arguments tried
DepthArgs == (0..MaxDepthArg) \cup {Inf}

-----------------------------------------------------------------------------
(* search_forest_iterator and SearchForest.__iter__.                       *)

\* a slip: the bottom of the stack is polled in every mode
PositionAlwaysFirst(alg) == 0

\* a slip: the top of the stack is polled in every mode
PositionAlwaysLast(alg) == -1

\* position = -1 for 'depth', 0 otherwise
Position(alg) == IF alg = "depth" THEN -1 ELSE 0

\* the 1-based place of Python index p in list s
PyIndex(s, p) == IF p < 0 THEN Len(s) + p + 1 ELSE p + 1

\* a slip: stack.pop() in place of stack.pop(position)
PopCursorLast(s, p) == RemoveAt(s, Len(s))

\* stack.pop(position)
PopCursor(s, p) == RemoveAt(s, PyIndex(s, p))

\* a slip: the None results of post_process are not left out
EmitUnfiltered(o, node) ==
  IF post_process = <<>> THEN Append(o, node) ELSE Append(o, post_process[node])

\* the value the consumer gets for a node: the node, or post_process(node),
\* which is left out when it is None (imap_and_filter_none)
Emit(o, node) ==
  IF post_process = <<>> THEN Append(o, node)
  ELSE IF post_process[node] = None THEN o
  ELSE Append(o, post_process[node])

\* SearchForest.__iter__: search_forest_iterator(self.roots(), self.children,
\* algorithm = self._algorithm), with stack = [iter(roots)]
SearchForest_iter ==
  /\ pc = "constructed"
  /\ cls = "SearchForest"
  /\ stack' = <<seeds>>
  /\ position' = Position(algorithm)
  /\ pc' = "forest"
  /\ method' = "__iter__"
  /\ UNCHANGED <<object, elt, result, out, calls, known,
                 todo, current_level, idx, next_level, depth, A, B, levels>>

\* the cursor at position has a next node: yield it, push iter(children(node));
\* a node the children function is not defined on (None, for a function of
\* nodes) makes the call raise, and the error ends the iteration
SFI_Yield ==
  /\ pc = "forest"
  /\ Len(stack) > 0
  /\ LET p == PyIndex(stack, position)
         node == Head(stack[p])
         rest == [stack EXCEPT ![p] = Tail(stack[p])]
     IN /\ Len(stack[p]) > 0
        /\ out' = Emit(out, node)
        /\ calls' = calls \cup {node}
        /\ IF node \in DOMAIN succ
           THEN stack' = Append(rest, succ[node]) /\ pc' = pc
           ELSE stack' = rest /\ pc' = "TypeError"
  /\ UNCHANGED <<object, method, elt, result, position, known, todo,
                 current_level, idx, next_level, depth, A, B, levels>>

\* the cursor at position is exhausted: stack.pop(position); the loop ends
\* when the stack is empty
SFI_Pop ==
  /\ pc = "forest"
  /\ Len(stack) > 0
  /\ Len(stack[PyIndex(stack, position)]) = 0
  /\ stack' = PopCursor(stack, position)
  /\ pc' = IF Len(stack') > 0 THEN "forest" ELSE "done"
  /\ UNCHANGED <<object, method, elt, result, position, out, calls, known,
                 todo, current_level, idx, next_level, depth, A, B, levels>>

\* the forests on the nodes 1..ForestNodes: parent[n] < n, 0 for a root;
\* roots and children are listed ascending, or descending when rev
ForestParents == {f \in [1..ForestNodes -> 0..(ForestNodes - 1)] : \A n \in 1..ForestNodes : f[n] < n}

ChildList(f, n, rev) ==
  LET S == {m \in 1..ForestNodes : f[m] = n} IN IF rev THEN Desc(S) ELSE Asc(S)

\* The nodes of the doctest forest are the lists of 0 / 1; the list l is
\* held as the number written 1 followed by the digits of l in base 2.
RECURSIVE AsList(_)
AsList(n) == IF n <= 1 THEN <<>> ELSE Append(AsList(n \div 2), n % 2)

RECURSIVE OfList(_)
OfList(l) == IF l = <<>> THEN 1 ELSE 2 * OfList(SubSeq(l, 1, Len(l) - 1)) + l[Len(l)]

RECURSIVE Pow2(_)
Pow2(n) == IF n = 0 THEN 1 ELSE 2 * Pow2(n - 1)

\* lambda l: [l+[0], l+[1]] if len(l) < 3 else []
DoctestChildren ==
  [n \in 1..(Pow2(DoctestLen + 1) - 1) |->
     IF Len(AsList(n)) < DoctestLen
     THEN <<OfList(AsList(n) \o <<0>>), OfList(AsList(n) \o <<1>>)>>
     ELSE <<>>]

InitForest ==
  \/ \E f \in ForestParents, rev \in BOOLEAN, alg \in {"None", "breadth"}, md \in DepthArgs :
       Constructed(ChildList(f, 0, rev),
                   [n \in 1..ForestNodes |-> ChildList(f, n, rev)],
                   "forest", alg, md)
  \/ \E alg \in {"None", "breadth"} :
       Constructed(<<OfList(<<>>)>>, DoctestChildren, "forest", alg, Inf)

NextForest == SearchForest_iter \/ SFI_Yield \/ SFI_Pop

SpecForest == InitForest /\ [][NextForest]_vars

-----------------------------------------------------------------------------
(* What the claims about the forest traversal are stated with.             *)

NoDup(s) == \A i, j \in 1..Len(s) : i # j => s[i] # s[j]

\* the successors of x that are elements (None is no element)
Succs(x) == Range(succ[x]) \ {None}

\* the set got by exhaustively applying succ, starting from S
RECURSIVE ClosureOf(_)
ClosureOf(S) ==
  LET T == S \cup UNION {Succs(x) : x \in S} IN IF T = S THEN S ELSE ClosureOf(T)

Closure == ClosureOf(Range(seeds) \ {None})

\* the elements got by applying succ exactly d times from a seed
RECURSIVE LevelSet(_)
LevelSet(d) ==
  IF d = 0 THEN Range(seeds) \ {None} ELSE UNION {Succs(x) : x \in LevelSet(d - 1)}

\* the graph distance of a reachable element from the seed set
Dist(n) == Min({d \in 0..Cardinality(DOMAIN succ) : n \in LevelSet(d)})

\* the elements at graph distance d from the seed set
DistSet(d) == {n \in Closure : Dist(n) = d}

\* the number of places of list s that hold n
Count(s, n) == Cardinality({i \in 1..Len(s) : s[i] = n})

\* every reachable node is reached by exactly one path from exactly one root
IsForest ==
  \A n \in Closure :
    Count(seeds, n) + Cardinality({<<x, i>> \in Closure \X (1..Cardinality(DOMAIN succ)) :
                                     i <= Len(succ[x]) /\ succ[x][i] = n}) = 1

\* the nodes of the forest below the list l of siblings, in pre-order
RECURSIVE Preorder(_)
Preorder(l) ==
  IF l = <<>> THEN <<>> ELSE <<Head(l)>> \o Preorder(succ[Head(l)]) \o Preorder(Tail(l))

IsPrefix(s, t) == Len(s) <= Len(t) /\ SubSeq(t, 1, Len(s)) = s

\* C1: on a finite forest search_forest_iterator, run to exhaustion in depth
\* or in breadth mode, has yielded every node of the forest exactly once: the
\* nodes yielded are those got by exhaustively applying children from the
\* roots, and at no time has a node been yielded twice.
C1_ForestEveryNodeOnce ==
  (cls = "SearchForest" /\ IsForest) =>
    /\ NoDup(out)
    /\ Range(out) \subseteq Closure
    /\ pc = "done" => Range(out) = Closure

\* a breadth run over a forest with a node of depth 2 that has ended
C1_Witness ==
  /\ cls = "SearchForest" /\ IsForest /\ pc = "done" /\ algorithm = "breadth"
  /\ Len(seeds) = 2
  /\ \E n \in Range(out) : Dist(n) = 2

\* C2: in depth mode the nodes are yielded in pre-order (a node before its
\* descendants, these before its next sibling, siblings and roots in the
\* order given); for roots [[]] and children l+[0], l+[1] while len(l) < 3
\* the output is [], [0], [0,0], [0,0,0], [0,0,1], [0,1], ..., [1,1,1].
C2_DepthIsPreorder ==
  (cls = "SearchForest" /\ algorithm = "depth" /\ IsForest) =>
    /\ IsPrefix(out, Preorder(seeds))
    /\ pc = "done" => out = Preorder(seeds)
    /\ (pc = "done" /\ succ = DoctestChildren /\ seeds = <<OfList(<<>>)>>) =>
         [i \in 1..Len(out) |-> AsList(out[i])] =
           << <<>>, <<0>>, <<0, 0>>, <<0, 0, 0>>, <<0, 0, 1>>, <<0, 1>>, <<0, 1, 0>>,
              <<0, 1, 1>>, <<1>>, <<1, 0>>, <<1, 0, 0>>, <<1, 0, 1>>, <<1, 1>>,
              <<1, 1, 0>>, <<1, 1, 1>> >>

\* the depth first run of the doctest forest has ended
C2_Witness ==
  /\ cls = "SearchForest" /\ algorithm = "depth" /\ pc = "done"
  /\ succ = DoctestChildren
  /\ Len(out) = Pow2(DoctestLen + 1) - 1

\* C3: in breadth mode the nodes are yielded in non-decreasing depth: at every
\* time, no node yielded is deeper than a node yielded after it.
C3_BreadthByDepth ==
  (cls = "SearchForest" /\ algorithm = "breadth" /\ IsForest) =>
    \A i, j \in 1..Len(out) : i < j => Dist(out[i]) <= Dist(out[j])

\* a breadth run has yielded a node of depth 2 after two nodes of depth 1,
\* the first of which has a child
C3_Witness ==
  /\ cls = "SearchForest" /\ algorithm = "breadth" /\ IsForest
  /\ \E i, j, k \in 1..Len(out) :
       /\ i < j /\ j < k
       /\ Dist(out[i]) = 1 /\ Dist(out[j]) = 1 /\ Dist(out[k]) = 2
       /\ succ[out[i]] # <<>>

\* C10: a RecursiveSet made with structure 'forest' and max_depth = k yields
\* no node deeper than k (and, when run to the end, every node of depth at
\* most k).
C10_ForestHonorsMaxDepth ==
  (cls = "SearchForest" /\ IsForest /\ args.max_depth # Inf) =>
    /\ \A i \in 1..Len(out) : Dist(out[i]) <= args.max_depth
    /\ pc = "done" => Range(out) = {n \in Closure : Dist(n) <= args.max_depth}

-----------------------------------------------------------------------------
(* The relations and seeds the graph searches are run on.                  *)

\* the sets of at most k of the pairs P
RECURSIVE EdgeSets(_, _)
EdgeSets(P, k) ==
  IF k = 0 THEN {{}}
  ELSE LET E == EdgeSets(P, k - 1) IN E \cup {S \cup {e} : S \in E, e \in P}

\* succ as a function to lists, for the set E of pairs on the nodes 1..n
SuccOf(E, n) == [x \in 1..n |-> Asc({y \in 1..n : <<x, y>> \in E})]

\* the relations on 1..GraphNodes with at most MaxEdges edges: cycles,
\* self-loops and merging paths are among them
Relations == {SuccOf(E, GraphNodes) : E \in EdgeSets((1..GraphNodes) \X (1..GraphNodes), MaxEdges)}

\* the seed lists: up to renaming of the nodes, the first k nodes; and a list
\* that names a seed twice
SeedLists == {[i \in 1..k |-> i] : k \in 0..MaxSeeds} \cup {<<1, 1>>}

-----------------------------------------------------------------------------
(* RecursiveSet.naive_search_iterator.                                     *)

\* a slip: the test y == None is left out
RECURSIVE FreshKeepsNone(_, _)
FreshKeepsNone(l, seen) ==
  IF l = <<>> THEN {}
  ELSE IF Head(l) \in seen THEN FreshKeepsNone(Tail(l), seen)
  ELSE {Head(l)} \cup FreshKeepsNone(Tail(l), seen \cup {Head(l)})

\* a slip: break in place of continue
RECURSIVE FreshBreak(_, _)
FreshBreak(l, seen) ==
  IF l = <<>> THEN {}
  ELSE IF Head(l) = None \/ Head(l) \in seen THEN {}
  ELSE {Head(l)} \cup FreshBreak(Tail(l), seen \cup {Head(l)})

\* a slip: the test y in known is left out
FreshAll(l, seen) == Range(l) \ {None}

\* for y in succ(x): if y == None or y in seen: continue; ...add(y):
\* the elements of the list l that are added
RECURSIVE Fresh(_, _)
Fresh(l, seen) ==
  IF l = <<>> THEN {}
  ELSE IF Head(l) = None \/ Head(l) \in seen THEN Fresh(Tail(l), seen)
  ELSE {Head(l)} \cup Fresh(Tail(l), seen \cup {Head(l)})

\* RecursiveSet.__iter__ with algorithm 'naive': known = set(seeds),
\* todo = known.copy(), and the first test of the loop
Naive_iter ==
  /\ pc = "constructed"
  /\ cls \in RecursiveSetClasses
  /\ algorithm = "naive"
  /\ known' = Range(seeds)
  /\ todo' = Range(seeds)
  /\ pc' = IF Range(seeds) # {} THEN "naive" ELSE "done"
  /\ method' = "__iter__"
  /\ UNCHANGED <<object, elt, result, position, stack, out, calls,
                 current_level, idx, next_level, depth, A, B, levels>>

\* x = todo.pop(); yield x; the successors of x not yet known are added to
\* todo and known; the loop ends when todo is empty
Naive_Step ==
  /\ pc = "naive"
  /\ \E x \in todo :
       LET new == Fresh(succ[x], known)
       IN /\ out' = Append(out, x)
          /\ calls' = calls \cup {x}
          /\ todo' = (todo \ {x}) \cup new
          /\ known' = known \cup new
          /\ pc' = IF todo' # {} THEN "naive" ELSE "done"
  /\ UNCHANGED <<object, method, elt, result, position, stack,
                 current_level, idx, next_level, depth, A, B, levels>>

InitNaive ==
  \E sc \in Relations, sd \in SeedLists : Constructed(sd, sc, "None", "None", Inf)

NextNaive == Naive_iter \/ Naive_Step

SpecNaive == InitNaive /\ [][NextNaive]_vars

\* the iterator is run to exhaustion: a step that can be taken is taken
SpecNaiveFair == SpecNaive /\ WF_vars(NextNaive)

\* C4: for finite seeds and a finite closure (cycles, self-loops and merging
\* paths allowed) naive_search_iterator terminates whichever element
\* todo.pop() removes, and has then yielded exactly the closure of the seeds
\* under succ, each element once.
C4_NaiveTerminatesWithClosure ==
  /\ <>(pc = "done")
  /\ [](NoDup(out) /\ Range(out) \subseteq Closure)
  /\ [](pc = "done" => Range(out) = Closure)

\* a naive search over a relation with a cycle and two paths to one element
\* has ended
C4_Witness ==
  /\ cls = "RecursiveSet" /\ algorithm = "naive" /\ pc = "done"
  /\ Len(out) = GraphNodes
  /\ \E x, y \in Closure : x # y /\ y \in Succs(x) /\ x \in Succs(y)
  /\ \E x, y, z \in Closure : x # y /\ z \in Succs(x) /\ z \in Succs(y)

-----------------------------------------------------------------------------
(* RecursiveSet.breadth_first_search_iterator and                          *)
(* RecursiveSet_graded.breadth_first_search_iterator.                      *)

\* a slip: the graded test (y in next_level) in the unstructured search too
SeenNextLevelOnly == next_level

\* the set the successors are tested against: known, or next_level in the
\* graded search
Seen == IF cls = "RecursiveSet_graded" THEN next_level ELSE known

\* a slip: the new level starts from the level before it
NewLevelKept(level) == Range(level)

\* next_level = set(), at the top of the while loop
NewLevel(level) == {}

\* a slip: the test len(current_level) > 0 is left out
LoopTestDepthOnly(level, d) == Leq(d, max_depth)

\* a slip: depth < max_depth
LoopTestStrict(level, d) == Len(level) > 0 /\ Less(d, max_depth)

\* while len(current_level) > 0 and depth <= max_depth
LoopTest(level, d) == Len(level) > 0 /\ Leq(d, max_depth)

\* RecursiveSet.__iter__ with algorithm 'breadth', TransitiveIdealGraded.__iter__:
\* current_level = seeds, known = set(current_level) (not in the graded
\* search), depth = 0, and the first test of the loop
Breadth_iter ==
  /\ pc = "constructed"
  /\ cls \in {"RecursiveSet", "RecursiveSet_graded", "TransitiveIdealGraded"}
  /\ algorithm = "breadth"
  /\ current_level' = seeds
  /\ known' = IF cls = "RecursiveSet_graded" THEN known ELSE Range(seeds)
  /\ depth' = 0
  /\ idx' = 1
  /\ next_level' = NewLevel(seeds)
  /\ pc' = IF LoopTest(seeds, 0) THEN "level" ELSE "done"
  /\ method' = "__iter__"
  /\ UNCHANGED <<object, elt, result, position, stack, out, calls,
                 todo, A, B, levels>>

\* for x in current_level: yield x; the successors of x that are not None
\* and not seen are added to next_level (and to known)
Breadth_Visit ==
  /\ pc = "level"
  /\ idx <= Len(current_level)
  /\ LET x == current_level[idx]
         new == Fresh(succ[x], Seen)
     IN /\ out' = Append(out, x)
        /\ calls' = calls \cup {x}
        /\ next_level' = next_level \cup new
        /\ known' = IF cls = "RecursiveSet_graded" THEN known ELSE known \cup new
  /\ idx' = idx + 1
  /\ UNCHANGED <<object, method, elt, result, position, pc, stack, todo,
                 current_level, depth, A, B, levels>>

\* the for loop is over: current_level = next_level (a set, iterated in some
\* order), depth += 1, and the test of the while loop
Breadth_NextLevel ==
  /\ pc = "level"
  /\ idx > Len(current_level)
  /\ \E level \in Orders(next_level) :
       /\ current_level' = level
       /\ next_level' = NewLevel(level)
       /\ pc' = IF LoopTest(level, depth + 1) THEN "level" ELSE "done"
  /\ depth' = depth + 1
  /\ idx' = 1
  /\ UNCHANGED <<object, method, elt, result, position, stack, out, calls,
                 known, todo, A, B, levels>>

\* all paths from the seeds to an element have the same length: no element
\* is got by applying succ d1 times and also d2 times, d1 # d2
IsGraded ==
  \A d1, d2 \in 0..(2 * Cardinality(DOMAIN succ)) :
    d1 # d2 => LevelSet(d1) \cap LevelSet(d2) = {}

\* the classes whose breadth first search remembers every element
Unstructured == {"RecursiveSet", "TransitiveIdealGraded"}

\* the unstructured search is run on every relation; the graded search on
\* the graded ones, as its caller promises
InitBreadth ==
  \E sc \in Relations, sd \in SeedLists, md \in DepthArgs :
    \/ Constructed(sd, sc, "None", "breadth", md)
    \/ TransitiveIdealGraded(sc, sd, md)
    \/ Constructed(sd, sc, "graded", "None", md) /\ IsGraded

NextBreadth == Breadth_iter \/ Breadth_Visit \/ Breadth_NextLevel

SpecBreadth == InitBreadth /\ [][NextBreadth]_vars

\* the elements got by applying succ at most k times from a seed
RECURSIVE UpToLevel(_)
UpToLevel(k) == IF k = Inf THEN Closure ELSE IF k = 0 THEN LevelSet(0) ELSE LevelSet(k) \cup UpToLevel(k - 1)

\* the elements yielded before the level that is being yielded
BeforeLevel == SubSeq(out, 1, Len(out) - (idx - 1))

\* C6: for a graded relation and distinct seeds the graded breadth first
\* iterator yields no element twice and goes level by level: the level
\* yielded at depth d is the set got by expanding the seeds d times, the
\* elements yielded before it are those of the levels below d, and an
\* iteration that ends without cutoff has yielded every reachable element.
C6_GradedLevelByLevel ==
  (cls = "RecursiveSet_graded" /\ IsGraded /\ NoDup(seeds)) =>
    /\ NoDup(out)
    /\ pc = "level" =>
         /\ Range(current_level) = LevelSet(depth)
         /\ Range(BeforeLevel) = (IF depth = 0 THEN {} ELSE UpToLevel(depth - 1))
         /\ SubSeq(out, Len(out) - (idx - 1) + 1, Len(out)) = SubSeq(current_level, 1, idx - 1)
    /\ (pc = "done" /\ max_depth = Inf) => Range(out) = Closure

\* a graded search without cutoff has ended after a level of two elements
\* that share a successor
C6_Witness ==
  /\ cls = "RecursiveSet_graded" /\ IsGraded /\ NoDup(seeds) /\ pc = "done"
  /\ max_depth = Inf
  /\ Len(out) = GraphNodes
  /\ \E x, y \in LevelSet(0) : x # y /\ Succs(x) \cap Succs(y) # {}

\* C7: on any relation with distinct seeds (cycles and paths of different
\* lengths to one element included) the unstructured breadth first iterator
\* (of RecursiveSet with algorithm 'breadth', and of TransitiveIdealGraded)
\* yields no element twice, yields only elements within max_depth of the
\* seeds, in non-decreasing distance from the seeds, and has yielded all of
\* them when it ends.
C7_BreadthOnceByDistance ==
  (cls \in Unstructured /\ algorithm = "breadth" /\ NoDup(seeds)) =>
    /\ NoDup(out)
    /\ Range(out) \subseteq UpToLevel(max_depth)
    /\ \A i, j \in 1..Len(out) : i < j => Dist(out[i]) <= Dist(out[j])
    /\ pc = "done" => Range(out) = UpToLevel(max_depth)

\* an unstructured breadth first search has ended on a relation that is not
\* graded and has a cycle through a seed
C7_Witness ==
  /\ cls = "TransitiveIdealGraded" /\ NoDup(seeds) /\ pc = "done"
  /\ ~IsGraded
  /\ Len(out) = GraphNodes
  /\ \E x \in Range(seeds), y \in Closure : x # y /\ y \in Succs(x) /\ x \in Succs(y)

\* C8: with max_depth = k the unstructured and the graded breadth first
\* iterators yield exactly the elements of depth 0, ..., k: never an element
\* of depth k + 1 or more, all those of depth at most k once ended; with
\* max_depth = 0 exactly the seeds.
C8_MaxDepthInclusive ==
  (cls \in Unstructured \cup {"RecursiveSet_graded"} /\ algorithm = "breadth"
     /\ max_depth # Inf /\ (cls = "RecursiveSet_graded" => IsGraded)) =>
    /\ \A i \in 1..Len(out) : Dist(out[i]) <= max_depth
    /\ pc = "done" => Range(out) = {n \in Closure : Dist(n) <= max_depth}
    /\ (pc = "done" /\ max_depth = 0) => out = seeds

\* a graded search with max_depth = 1 has ended, having yielded an element
\* of depth 1 and left out one of depth 2
C8_Witness ==
  /\ cls = "RecursiveSet_graded" /\ IsGraded /\ pc = "done"
  /\ max_depth = 1
  /\ \E n \in Range(out) : Dist(n) = 1
  /\ \E n \in Closure : Dist(n) = 2

-----------------------------------------------------------------------------
(* RecursiveSet_symmetric: level_iterator, _get_next_level and             *)
(* _breadth_first_search_iterator_from_level_iterator.                     *)

\* a slip: only the current level is tested (y in B), as the graded
\* _get_next_level does
GetNextLevelCurrentOnly(a, b) == UNION {Fresh(succ[x], b) : x \in b}

\* _get_next_level(A, B): the successors of the elements of B that are not
\* None, not in A and not in B
GetNextLevel(a, b) == UNION {Fresh(succ[x], a \cup b) : x \in b}

\* RecursiveSet.__iter__ with algorithm 'breadth' on a symmetric set:
\* it = self.level_iterator(), i = 0
Sym_iter ==
  /\ pc = "constructed"
  /\ cls = "RecursiveSet_symmetric"
  /\ algorithm = "breadth"
  /\ depth' = 0
  /\ pc' = "while"
  /\ method' = "__iter__"
  /\ UNCHANGED <<object, elt, result, position, stack, out, calls,
                 known, todo, current_level, idx, next_level, A, B, levels>>

\* while i < max_depth fails: the iteration ends
Sym_Cutoff ==
  /\ pc = "while"
  /\ ~Less(depth, max_depth)
  /\ pc' = "done"
  /\ UNCHANGED <<object, method, elt, result, position, stack, out, calls,
                 known, todo, current_level, idx, next_level, depth, A, B, levels>>

\* level = next(it), the first time: A = set(), B = seeds; B is yielded when
\* it is not empty, else the level iterator and with it the iteration end
Sym_FirstLevel ==
  /\ pc = "while"
  /\ Less(depth, max_depth)
  /\ levels = <<>>
  /\ A' = {}
  /\ B' = seeds
  /\ IF Len(seeds) > 0
     THEN /\ levels' = Append(levels, Range(seeds))
          /\ current_level' = seeds
          /\ pc' = "for"
     ELSE /\ pc' = "done"
          /\ UNCHANGED <<levels, current_level>>
  /\ idx' = 1
  /\ UNCHANGED <<object, method, elt, result, position, stack, out, calls,
                 known, todo, next_level, depth>>

\* a slip: the StopIteration of the exhausted level iterator is an error of
\* the iteration
Sym_NextLevelRaises ==
  /\ pc = "while"
  /\ Less(depth, max_depth)
  /\ levels # <<>>
  /\ \E level \in Orders(GetNextLevel(A, Range(B))) :
       /\ A' = Range(B)
       /\ B' = level
       /\ IF Len(level) > 0
          THEN /\ levels' = Append(levels, Range(level))
               /\ current_level' = level
               /\ pc' = "for"
          ELSE /\ pc' = "RuntimeError"
               /\ UNCHANGED <<levels, current_level>>
  /\ calls' = calls \cup Range(B)
  /\ idx' = 1
  /\ UNCHANGED <<object, method, elt, result, position, stack, out,
                 known, todo, next_level, depth>>

\* level = next(it), later: A, B = B, self._get_next_level(A, B); the new B (a
\* set, iterated in some order) is yielded when it is not empty, else the
\* level iterator and with it the iteration end
Sym_NextLevel ==
  /\ pc = "while"
  /\ Less(depth, max_depth)
  /\ levels # <<>>
  /\ \E level \in Orders(GetNextLevel(A, Range(B))) :
       /\ A' = Range(B)
       /\ B' = level
       /\ IF Len(level) > 0
          THEN /\ levels' = Append(levels, Range(level))
               /\ current_level' = level
               /\ pc' = "for"
          ELSE /\ pc' = "done"
               /\ UNCHANGED <<levels, current_level>>
  /\ calls' = calls \cup Range(B)
  /\ idx' = 1
  /\ UNCHANGED <<object, method, elt, result, position, stack, out,
                 known, todo, next_level, depth>>

\* for a in level: yield a
Sym_Yield ==
  /\ pc = "for"
  /\ idx <= Len(current_level)
  /\ out' = Append(out, current_level[idx])
  /\ idx' = idx + 1
  /\ UNCHANGED <<object, method, elt, result, position, pc, stack, calls,
                 known, todo, current_level, next_level, depth, A, B, levels>>

\* the for loop is over: i += 1
Sym_EndFor ==
  /\ pc = "for"
  /\ idx > Len(current_level)
  /\ depth' = depth + 1
  /\ pc' = "while"
  /\ UNCHANGED <<object, method, elt, result, position, stack, out, calls,
                 known, todo, current_level, idx, next_level, A, B, levels>>

\* the unordered pairs, loops included, of the nodes 1..n
Links(n) == {<<x, y>> \in (1..n) \X (1..n) : x <= y}

\* the symmetric relation with the links L
SymClosure(L) == L \cup {<<e[2], e[1]>> : e \in L}

\* the symmetric relations on 1..SymNodes with at most SymEdges links
SymRelations == {SuccOf(SymClosure(L), SymNodes) : L \in EdgeSets(Links(SymNodes), SymEdges)}

\* lambda a: [a-1, a+1], on the integers the first DoctestLevels levels of
\* the seed DoctestSeed are made of
DoctestWindow == (DoctestSeed - DoctestLevels + 1)..(DoctestSeed + DoctestLevels - 1)

DoctestNeighbours ==
  [a \in DoctestWindow |-> Asc({a - 1, a + 1} \cap DoctestWindow)]

InitSym ==
  \/ \E sc \in SymRelations, sd \in SeedLists, md \in DepthArgs :
       Constructed(sd, sc, "symmetric", "None", md)
  \/ \E md \in DepthArgs : Constructed(<<DoctestSeed>>, DoctestNeighbours, "symmetric", "None", md)

NextSym == Sym_iter \/ Sym_Cutoff \/ Sym_FirstLevel \/ Sym_NextLevel \/ Sym_Yield \/ Sym_EndFor

SpecSym == InitSym /\ [][NextSym]_vars

\* y in succ(x) if and only if x in succ(y)
IsSymmetric == \A x, y \in DOMAIN succ : y \in Succs(x) <=> x \in Succs(y)

\* C5: for a symmetric relation and any seeds, the d-th set produced by the
\* symmetric level_iterator is the set of the elements at graph distance d
\* from the seeds; so no element is in two levels, and a level iterator that
\* has ended has produced every reachable element (succ(a) = [a-1, a+1],
\* seed 10: the levels {10}, {9, 11}, {8, 12}, ...).
C5_SymmetricLevelsAreDistances ==
  (cls = "RecursiveSet_symmetric" /\ IsSymmetric) =>
    /\ \A d \in 1..Len(levels) : levels[d] = DistSet(d - 1)
    /\ \A d, e \in 1..Len(levels) : d # e => levels[d] \cap levels[e] = {}
    /\ (pc = "done" /\ max_depth = Inf) => UNION Range(levels) = Closure
    /\ (succ = DoctestNeighbours /\ seeds = <<DoctestSeed>> /\ Len(levels) >= 3) =>
         SubSeq(levels, 1, 3) = <<{10}, {9, 11}, {8, 12}>>

\* the level iterator of the doctest has ended after DoctestLevels levels
C5_Witness ==
  /\ cls = "RecursiveSet_symmetric" /\ IsSymmetric /\ pc = "done"
  /\ succ = DoctestNeighbours /\ seeds = <<DoctestSeed>>
  /\ Len(levels) = DoctestLevels

\* C9: a symmetric RecursiveSet with max_depth = k yields the elements of
\* every depth up to and including k; with max_depth = 0 exactly the seeds.
C9_SymmetricMaxDepthInclusive ==
  (cls = "RecursiveSet_symmetric" /\ IsSymmetric /\ max_depth # Inf /\ pc = "done") =>
    /\ Range(out) = {n \in Closure : Dist(n) <= max_depth}
    /\ max_depth = 0 => out = seeds

-----------------------------------------------------------------------------
(* The factory with every structure tag and every algorithm name, on       *)
(* relations that have None among the successors.                          *)

\* largest number of pairs x, y with y in succ(x)
SetEdges == 2

\* the structure tags tried: structure=None, the three the factory knows, and
\* one it does not know
Structures == {"None", "forest", "graded", "symmetric", "tree"}

\* the algorithm names tried: algorithm=None, the three RecursiveSet.__init__
\* accepts, and one it does not
Algorithms == {"None", "naive", "depth", "breadth", "random"}

\* the function sc, with None put in front of every list of successors
NoneFirst(sc) == [x \in DOMAIN sc |-> <<None>> \o sc[x]]

\* the relations on 1..GraphNodes with at most SetEdges edges, as they are and
\* with None among the successors
SetRelations ==
  LET R == {SuccOf(E, GraphNodes) : E \in EdgeSets((1..GraphNodes) \X (1..GraphNodes), SetEdges)}
  IN R \cup {NoneFirst(sc) : sc \in R}

\* a children function that accepts None and gives it no children
AcceptsNone(sc) == [x \in {None} \cup DOMAIN sc |-> IF x = None THEN <<>> ELSE sc[x]]

\* RecursiveSet.__iter__ with algorithm 'depth':
\* self.depth_first_search_iterator(max_depth=self._max_depth) raises
Depth_iter ==
  /\ pc = "constructed"
  /\ cls \in RecursiveSetClasses
  /\ algorithm = "depth"
  /\ method' = "__iter__"
  /\ pc' = "NotImplementedError"
  /\ UNCHANGED <<object, elt, result, position, stack, out, calls, known, todo, current_level,
                 idx, next_level, depth, A, B, levels>>

\* a slip: the depth is served from the level iterator
Sym_elements_of_depth_from_levels ==
  /\ pc = "constructed"
  /\ cls = "RecursiveSet_symmetric"
  /\ \E d \in 0..MaxDepthArg : depth' = d
  /\ method' = "elements_of_depth_iterator"
  /\ out' = seeds
  /\ pc' = "done"
  /\ UNCHANGED <<object, elt, result, position, stack, calls, known, todo, current_level,
                 idx, next_level, A, B, levels>>

\* RecursiveSet_symmetric.elements_of_depth_iterator(depth): raises
Sym_elements_of_depth_iterator ==
  /\ pc = "constructed"
  /\ cls = "RecursiveSet_symmetric"
  /\ \E d \in 0..MaxDepthArg : depth' = d
  /\ method' = "elements_of_depth_iterator"
  /\ pc' = "NotImplementedError"
  /\ UNCHANGED <<object, elt, result, position, stack, out, calls, known, todo, current_level,
                 idx, next_level, A, B, levels>>

\* what the caller promises about succ when naming a structure
Promised ==
  /\ args.structure = "graded" => IsGraded
  /\ args.structure = "symmetric" => IsSymmetric
  /\ args.structure = "forest" => IsForest

InitSet ==
  \E sc \in SetRelations, sd \in SeedLists, structure \in Structures,
     alg \in Algorithms, md \in DepthArgs :
    /\ \/ Constructed(sd, sc, structure, alg, md)
       \/ structure = "forest" /\ Constructed(sd, AcceptsNone(sc), structure, alg, md)
    /\ Promised

NextSet ==
  \/ NextForest
  \/ NextNaive
  \/ NextBreadth
  \/ NextSym
  \/ Depth_iter
  \/ Sym_elements_of_depth_iterator

SpecSet == InitSet /\ [][NextSet]_vars

\* C11: in the naive, the unstructured breadth first, the graded and the
\* symmetric search a None among the successors of an element is dropped: None
\* is never yielded, never put in known, todo or a level, succ is never
\* called on None; and the other successors of that element are treated as
\* usual, so a search that ends without cutoff has yielded the whole closure.
C11_NoneSuccessorDropped ==
  cls \in RecursiveSetClasses =>
    /\ None \notin Range(out) \cup calls
    /\ None \notin known \cup todo \cup next_level \cup Range(current_level)
    /\ None \notin A \cup Range(B) \cup UNION Range(levels)
    /\ (pc = "done" /\ max_depth = Inf) => Range(out) = Closure

\* a symmetric search has ended, having yielded an element whose successors
\* are None and another element, and this other element
C11_Witness ==
  /\ cls = "RecursiveSet_symmetric" /\ algorithm = "breadth" /\ pc = "done"
  /\ \E i, j \in 1..Len(out) :
       /\ i < j
       /\ succ[out[i]] = <<None, out[j]>>

\* C12: in the forest strategy, in depth and in breadth mode, a None among the
\* children of a node is treated as no child: it is never yielded, and
\* children is never called on it.
C12_ForestDropsNone ==
  cls = "SearchForest" => None \notin Range(out) \cup calls

\* the searches that exist: __iter__ of a SearchForest, and of a RecursiveSet
\* whose algorithm is not 'depth'
IsSearch ==
  /\ method \in {"None", "__iter__"}
  /\ \/ cls = "SearchForest"
     \/ cls \in RecursiveSetClasses /\ algorithm \in {"naive", "breadth"}

\* C13: with no seeds every strategy (naive, unstructured breadth first,
\* graded, symmetric, forest in depth and in breadth mode) yields nothing,
\* never calls succ / children, and goes to its end without an error.
C13_EmptySeedsYieldNothing ==
  (seeds = <<>> /\ IsSearch) =>
    /\ out = <<>>
    /\ calls = {}
    /\ pc \in {"constructed", "forest", "while", "done"}
    /\ pc = "forest" => stack = << <<>> >>
    /\ pc = "while" => levels = <<>>

\* a breadth first search of a forest without roots, whose children function
\* is not empty, has ended
C13_Witness ==
  /\ seeds = <<>> /\ cls = "SearchForest" /\ algorithm = "breadth" /\ pc = "done"
  /\ \E x \in DOMAIN succ : Succs(x) # {}

\* the algorithm names RecursiveSet.__init__ accepts
Supported == {"naive", "depth", "breadth"}

\* the algorithm asked for: the one given, else the default of the structure
Asked(default) == IF args.algorithm = "None" THEN default ELSE args.algorithm

\* no list of successors holds None
NoNone == \A x \in DOMAIN succ : None \notin Range(succ[x])

\* C14: RecursiveSet(seeds, succ, structure, algorithm) returns: for
\* structure None the unstructured set, naive search by default; for 'forest'
\* a SearchForest, depth first by default; for 'graded' the graded set,
\* breadth first by default; for 'symmetric' the symmetric set, breadth first
\* by default; for another structure tag nothing, an error is raised.  A
\* given algorithm takes the place of the default, and it is the search
\* __iter__ runs.
C14_FactoryDispatch ==
  /\ (args.structure = "None" /\ Asked("naive") \in Supported) =>
       cls = "RecursiveSet" /\ algorithm = Asked("naive")
  /\ (args.structure = "forest" /\ Asked("depth") \in Supported) =>
       cls = "SearchForest" /\ algorithm = Asked("depth")
  /\ (args.structure = "graded" /\ Asked("breadth") \in Supported) =>
       cls = "RecursiveSet_graded" /\ algorithm = Asked("breadth")
  /\ (args.structure = "symmetric" /\ Asked("breadth") \in Supported) =>
       cls = "RecursiveSet_symmetric" /\ algorithm = Asked("breadth")
  /\ args.structure \notin {"None", "forest", "graded", "symmetric"} =>
       cls = "ValueError" /\ pc = "constructed" /\ method = "None" /\ out = <<>>
  /\ (method = "__iter__" /\ cls \in RecursiveSetClasses /\ algorithm = "naive") =>
       pc \in {"naive", "done"}
  /\ (method = "__iter__" /\ cls \in {"RecursiveSet", "RecursiveSet_graded"}
        /\ algorithm = "breadth") =>
       pc \in {"level", "done"}
  /\ (method = "__iter__" /\ cls = "RecursiveSet_symmetric" /\ algorithm = "breadth") =>
       pc \in {"while", "for", "done"}
  /\ (method = "__iter__" /\ cls = "SearchForest") =>
       pc \in {"forest", "done", "TypeError"}
  /\ (method = "__iter__" /\ cls = "SearchForest" /\ algorithm = "depth" /\ NoNone) =>
       IsPrefix(out, Preorder(seeds))
  /\ (method = "__iter__" /\ cls = "SearchForest" /\ algorithm = "breadth" /\ NoNone) =>
       \A i, j \in 1..Len(out) : i < j => Dist(out[i]) <= Dist(out[j])

\* a set made with structure 'graded' and algorithm 'naive' has been searched
\* to the end, of two elements
C14_Witness ==
  /\ args.structure = "graded" /\ args.algorithm = "naive"
  /\ pc = "done"
  /\ Len(out) = 2

\* C15: an algorithm name that is not supported is rejected when the set is
\* made, whatever the structure tag (None, 'forest', 'graded', 'symmetric'):
\* no set is returned, so that no element is ever yielded by a set made with
\* such a name.
C15_UnknownAlgorithmRejected ==
  (args.algorithm \notin {"None"} \cup Supported) => out = <<>>

\* C16: __iter__ of an unstructured, graded or symmetric RecursiveSet whose
\* algorithm is 'depth' raises NotImplementedError, with no element yielded
\* and succ not called, and runs no other search; and
\* elements_of_depth_iterator of a symmetric set does the same for every depth.
C16_NotImplementedRaised ==
  /\ (cls \in RecursiveSetClasses /\ algorithm = "depth" /\ method = "__iter__") =>
       pc = "NotImplementedError" /\ out = <<>> /\ calls = {}
  /\ (cls = "RecursiveSet_symmetric" /\ method = "elements_of_depth_iterator") =>
       pc = "NotImplementedError" /\ out = <<>> /\ calls = {}
  /\ pc = "NotImplementedError" =>
       /\ out = <<>> /\ calls = {} /\ stack = <<>> /\ known = {} /\ todo = {}
       /\ levels = <<>> /\ current_level = <<>>

\* __iter__ of a graded set with two seeds, made with algorithm 'depth', has
\* raised
C16_Witness ==
  /\ cls = "RecursiveSet_graded" /\ algorithm = "depth" /\ method = "__iter__"
  /\ pc = "NotImplementedError"
  /\ Len(seeds) = 2 /\ \E x \in Range(seeds) : Succs(x) # {}

-----------------------------------------------------------------------------
(* SearchForest with a post_process function: __iter__,                    *)
(* depth_first_search_iterator, breadth_first_search_iterator and          *)
(* elements_of_depth_iterator.                                             *)

\* the depths asked of elements_of_depth_iterator: up to one more than the
\* height a forest on ForestNodes nodes can have
DepthsAsked == 0..ForestNodes

\* the state after SearchForest(roots, children, post_process, algorithm)
SearchForest(roots, children, pp, alg) ==
  Object(roots, children, "SearchForest", alg, Inf, [algorithm |-> alg], pp)

\* SearchForest.depth_first_search_iterator: return self.__iter__()
SearchForest_depth_first_search_iterator ==
  /\ pc = "constructed"
  /\ cls = "SearchForest"
  /\ stack' = <<seeds>>
  /\ position' = Position(algorithm)
  /\ pc' = "forest"
  /\ method' = "depth_first_search_iterator"
  /\ UNCHANGED <<object, elt, result, out, calls, known,
                 todo, current_level, idx, next_level, depth, A, B, levels>>

\* SearchForest.breadth_first_search_iterator:
\* search_forest_iterator(self.roots(), self.children, algorithm='breadth')
SearchForest_breadth_first_search_iterator ==
  /\ pc = "constructed"
  /\ cls = "SearchForest"
  /\ stack' = <<seeds>>
  /\ position' = Position("breadth")
  /\ pc' = "forest"
  /\ method' = "breadth_first_search_iterator"
  /\ UNCHANGED <<object, elt, result, out, calls, known,
                 todo, current_level, idx, next_level, depth, A, B, levels>>

\* SearchForest.elements_of_depth_iterator(depth): the generators
\* _elements_of_depth_iterator_rec(depth), ..., (0) are nested; stack[k + 1]
\* is what is left of the for loop of the generator of depth k, and the
\* generator of depth 0 loops over the roots
SearchForest_elements_of_depth_iterator ==
  /\ pc = "constructed"
  /\ cls = "SearchForest"
  /\ \E d \in DepthsAsked : depth' = d
  /\ stack' = <<seeds>>
  /\ pc' = "depth"
  /\ method' = "elements_of_depth_iterator"
  /\ UNCHANGED <<object, elt, result, position, out, calls, known,
                 todo, current_level, idx, next_level, A, B, levels>>

\* a slip: the nodes one level above are taken for the outermost ones
EOD_OutermostAbove(k) == k = depth

\* the k-th of the nested generators, that of depth k - 1, is the outermost
\* one: what it yields is what the iterator yields
EOD_Outermost(k) == k = depth + 1

\* for node in ...: yield node, in the outermost generator
EOD_Yield ==
  /\ pc = "depth"
  /\ Len(stack) > 0
  /\ EOD_Outermost(Len(stack))
  /\ Len(stack[Len(stack)]) > 0
  /\ out' = Emit(out, Head(stack[Len(stack)]))
  /\ stack' = [stack EXCEPT ![Len(stack)] = Tail(stack[Len(stack)])]
  /\ UNCHANGED <<object, method, elt, result, position, pc, calls, known,
                 todo, current_level, idx, next_level, depth, A, B, levels>>

\* for father in ...: an inner generator hands a father to the generator
\* above it, which starts for node in self.children(father)
EOD_Father ==
  /\ pc = "depth"
  /\ Len(stack) > 0
  /\ ~EOD_Outermost(Len(stack))
  /\ Len(stack[Len(stack)]) > 0
  /\ LET father == Head(stack[Len(stack)])
         rest == [stack EXCEPT ![Len(stack)] = Tail(stack[Len(stack)])]
     IN /\ calls' = calls \cup {father}
        /\ out' = out
        /\ IF father \in DOMAIN succ
           THEN stack' = Append(rest, succ[father]) /\ pc' = pc
           ELSE stack' = rest /\ pc' = "TypeError"
  /\ UNCHANGED <<object, method, elt, result, position, known,
                 todo, current_level, idx, next_level, depth, A, B, levels>>

\* a for loop is over: the generator of that depth ends, and the one below
\* it goes on; the iteration ends with the generator of depth 0
EOD_Return ==
  /\ pc = "depth"
  /\ Len(stack) > 0
  /\ Len(stack[Len(stack)]) = 0
  /\ stack' = SubSeq(stack, 1, Len(stack) - 1)
  /\ pc' = IF Len(stack') > 0 THEN "depth" ELSE "done"
  /\ UNCHANGED <<object, method, elt, result, position, out, calls, known,
                 todo, current_level, idx, next_level, depth, A, B, levels>>

\* post_process functions: one that renames every node (to a value that is no
\* node), one that suppresses the odd nodes and halves the even ones
Renamed == [n \in 1..ForestNodes |-> n + ForestNodes]
EvenHalved == [n \in 1..ForestNodes |-> IF n % 2 = 1 THEN None ELSE n \div 2]

PostProcesses == {<<>>, Renamed, EvenHalved}

InitSearchForest ==
  \E f \in ForestParents, rev \in BOOLEAN, alg \in {"depth", "breadth"}, pp \in PostProcesses :
    SearchForest(ChildList(f, 0, rev), [n \in 1..ForestNodes |-> ChildList(f, n, rev)], pp, alg)

NextSearchForest ==
  \/ SearchForest_iter
  \/ SearchForest_depth_first_search_iterator
  \/ SearchForest_breadth_first_search_iterator
  \/ SFI_Yield
  \/ SFI_Pop
  \/ SearchForest_elements_of_depth_iterator
  \/ EOD_Yield
  \/ EOD_Father
  \/ EOD_Return

SpecSearchForest == InitSearchForest /\ [][NextSearchForest]_vars

\* the children of the nodes of the list l, in the order of l
RECURSIVE Children(_)
Children(l) == IF l = <<>> THEN <<>> ELSE succ[Head(l)] \o Children(Tail(l))

\* the nodes of the forest at and below the level l, level by level
RECURSIVE ByLevels(_)
ByLevels(l) == IF l = <<>> THEN <<>> ELSE l \o ByLevels(Children(l))

\* the order in which the forest is traversed, with or without post_process
Traversal == IF position = -1 THEN Preorder(seeds) ELSE ByLevels(seeds)

\* the list l mapped through post_process, the None results taken out
RECURSIVE PostProcessed(_)
PostProcessed(l) ==
  IF l = <<>> THEN <<>>
  ELSE (IF post_process[Head(l)] = None THEN <<>> ELSE <<post_process[Head(l)]>>)
         \o PostProcessed(Tail(l))

\* what is output for the list l of nodes
Output(l) == IF post_process = <<>> THEN l ELSE PostProcessed(l)

\* C17: when a SearchForest has a post_process function, what __iter__,
\* depth_first_search_iterator and breadth_first_search_iterator have output
\* is the list of the nodes traversed so far, in the order of the traversal,
\* mapped through post_process with the None results taken out; children has
\* been called on just these raw nodes, those whose post_process is None
\* included, and at the end the whole forest has been traversed.
C17_PostProcessMapsAndFilters ==
  (cls = "SearchForest" /\ post_process # <<>>
     /\ method \in {"__iter__", "depth_first_search_iterator", "breadth_first_search_iterator"}) =>
    LET visited == SubSeq(Traversal, 1, Cardinality(calls))
    IN /\ Cardinality(calls) <= Len(Traversal)
       /\ calls = Range(visited)
       /\ out = PostProcessed(visited)
       /\ pc = "done" => visited = Traversal /\ Range(visited) = Closure

\* a breadth first search has ended that left out a root and output a child
\* of this root under another value
C17_Witness ==
  /\ cls = "SearchForest" /\ method = "breadth_first_search_iterator" /\ pc = "done"
  /\ algorithm = "breadth"
  /\ post_process = EvenHalved
  /\ \E r \in Range(seeds), c \in DOMAIN succ :
       /\ post_process[r] = None
       /\ c \in Succs(r)
       /\ post_process[c] \in Range(out)

\* the nodes got by applying children exactly d times from a root, in order
RECURSIVE LevelList(_)
LevelList(d) == IF d = 0 THEN seeds ELSE Children(LevelList(d - 1))

\* C18: elements_of_depth_iterator(d) yields the nodes got by applying
\* children exactly d times from a root, each once, and no other node: the
\* nodes of depth d; post_process is applied to these nodes only, and children
\* to shallower nodes only; d = 0 gives the roots, and a d beyond the height
\* of the forest gives nothing.
C18_ElementsOfDepth ==
  (cls = "SearchForest" /\ method = "elements_of_depth_iterator") =>
    /\ IsPrefix(out, Output(LevelList(depth)))
    /\ calls \subseteq {n \in Closure : Dist(n) < depth}
    /\ pc = "done" =>
         /\ out = Output(LevelList(depth))
         /\ NoDup(LevelList(depth))
         /\ Range(LevelList(depth)) = DistSet(depth)
         /\ depth = 0 => out = Output(seeds)
         /\ (\A n \in Closure : Dist(n) < depth) => out = <<>>

\* elements_of_depth_iterator(1) has ended on a forest that has nodes of
\* depth 0, 1 and 2, having output the two nodes of depth 1 under other values
C18_Witness ==
  /\ cls = "SearchForest" /\ method = "elements_of_depth_iterator" /\ pc = "done"
  /\ depth = 1
  /\ post_process = Renamed
  /\ Len(out) = 2
  /\ \E n \in Closure : Dist(n) = 2

\* C21: depth_first_search_iterator gives the nodes in pre-order and
\* breadth_first_search_iterator gives them level by level, whichever
\* algorithm the SearchForest was made with; and __iter__ of a SearchForest
\* made with the default algorithm gives them in pre-order.
C21_AccessorsIgnoreAlgorithm ==
  cls = "SearchForest" =>
    /\ method = "depth_first_search_iterator" => IsPrefix(out, Output(Preorder(seeds)))
    /\ method = "breadth_first_search_iterator" => IsPrefix(out, Output(ByLevels(seeds)))
    /\ (method = "__iter__" /\ algorithm = "depth") => IsPrefix(out, Output(Preorder(seeds)))

-----------------------------------------------------------------------------
(* SearchForest.__contains__.                                              *)

\* the values asked about: the nodes, and a value that is no node (the first
\* of the renamed values)
Candidates == 1..(ForestNodes + 1)

\* randint(a, b): any of a, ..., b
Randint(a, b) == a..b

\* elt in S: stack = [iter(self.roots())]
SearchForest_contains ==
  /\ pc = "constructed"
  /\ cls = "SearchForest"
  /\ \E e \in Candidates : elt' = e
  /\ stack' = <<seeds>>
  /\ pc' = "contains"
  /\ method' = "__contains__"
  /\ UNCHANGED <<object, result, position, out, calls, known, todo, current_level,
                 idx, next_level, depth, A, B, levels>>

\* the cursor at a random position is exhausted: stack.pop(position); when
\* the stack is empty the loop ends: return False
Contains_Pop ==
  /\ pc = "contains"
  /\ Len(stack) > 0
  /\ \E p \in Randint(0, Len(stack) - 1) :
       /\ Len(stack[PyIndex(stack, p)]) = 0
       /\ stack' = PopCursor(stack, p)
       /\ position' = p
  /\ IF Len(stack') > 0
     THEN pc' = pc /\ result' = result
     ELSE pc' = "returned" /\ result' = "False"
  /\ UNCHANGED <<object, method, elt, out, calls, known, todo, current_level,
                 idx, next_level, depth, A, B, levels>>

\* the cursor at a random position gives elt: return True
Contains_Found ==
  /\ pc = "contains"
  /\ Len(stack) > 0
  /\ \E p \in Randint(0, Len(stack) - 1) :
       LET i == PyIndex(stack, p)
       IN /\ Len(stack[i]) > 0
          /\ Head(stack[i]) = elt
          /\ stack' = [stack EXCEPT ![i] = Tail(stack[i])]
          /\ position' = p
  /\ pc' = "returned"
  /\ result' = "True"
  /\ UNCHANGED <<object, method, elt, out, calls, known, todo, current_level,
                 idx, next_level, depth, A, B, levels>>

\* the cursor at a random position gives another node:
\* stack.append(iter(self.children(node)))
Contains_Push ==
  /\ pc = "contains"
  /\ Len(stack) > 0
  /\ \E p \in Randint(0, Len(stack) - 1) :
       LET i == PyIndex(stack, p)
           node == Head(stack[i])
           rest == [stack EXCEPT ![i] = Tail(stack[i])]
       IN /\ Len(stack[i]) > 0
          /\ node # elt
          /\ calls' = calls \cup {node}
          /\ position' = p
          /\ IF node \in DOMAIN succ
             THEN stack' = Append(rest, succ[node]) /\ pc' = pc
             ELSE stack' = rest /\ pc' = "TypeError"
  /\ UNCHANGED <<object, method, elt, result, out, known, todo, current_level,
                 idx, next_level, depth, A, B, levels>>

InitContains == InitSearchForest

NextContains == SearchForest_contains \/ Contains_Pop \/ Contains_Found \/ Contains_Push

SpecContains == InitContains /\ [][NextContains]_vars

\* the call runs on: a step that can be taken is taken
SpecContainsFair == SpecContains /\ WF_vars(NextContains)

\* C19: on a finite forest, for every value elt, __contains__ returns whatever
\* positions randint gives; it returns True if and only if elt is a node of
\* the forest; and it returns False only once the stack of cursors is empty.
C19_ContainsTerminatesAndDecides ==
  /\ [](method = "__contains__" => <>(pc = "returned"))
  /\ [](pc = "returned" => (result = "True" <=> elt \in Closure))
  /\ [](result = "False" => stack = <<>> /\ calls = Closure)

\* a call on a forest with two roots and a node of depth 2 has returned False
C19_Witness ==
  /\ method = "__contains__" /\ pc = "returned" /\ result = "False"
  /\ Len(seeds) = 2
  /\ \E n \in Closure : Dist(n) = 2

\* what iterating the forest outputs
Elements == Range(Output(Preorder(seeds)))

\* C20: for a finite SearchForest S, every element x that iterating S
\* produces has S.__contains__(x) = True.
C20_ContainsAgreesWithIteration ==
  (method = "__contains__" /\ pc = "returned" /\ elt \in Elements) => result = "True"

-----------------------------------------------------------------------------
(* GenericBacktracker.__iter__.                                            *)
(* The objects are the nodes 1..BacktrackNodes of a search tree below the  *)
(* initial data 0; succ[obj] is the list of the triples (object, state,    *)
(* yld) the generator _rec(obj, state) gives.                              *)

\* number of objects of the search trees
BacktrackNodes == 3

\* a slip: the subtree of an object that is not yielded is not explored
DescendsIfYielded(state, yld) == state # None /\ yld = TRUE

\* if state is not None: stack.append(self._rec(obj, state))
Descends(state, yld) == state # None

\* if yld is True: yield obj
Yields(yld) == yld = TRUE

\* the state after GenericBacktracker(initial_data, initial_state), with the
\* method _rec of the subclass
GenericBacktracker(initial_data, initial_state, rec) ==
  Object(<<initial_data>>, rec, "GenericBacktracker", "None", Inf,
         [initial_data |-> initial_data, initial_state |-> initial_state], <<>>)

\* GenericBacktracker.__iter__:
\* stack.append(self._rec(self._initial_data, self._initial_state))
GB_iter ==
  /\ pc = "constructed"
  /\ cls = "GenericBacktracker"
  /\ stack' = <<succ[args.initial_data]>>
  /\ calls' = {args.initial_data}
  /\ pc' = "backtrack"
  /\ method' = "__iter__"
  /\ UNCHANGED <<object, elt, result, position, out, known, todo, current_level,
                 idx, next_level, depth, A, B, levels>>

\* obj, state, yld = stack[-1].next(); obj is yielded if yld is True, and
\* _rec(obj, state) is pushed if state is not None
GB_Next ==
  /\ pc = "backtrack"
  /\ Len(stack) > 0
  /\ Len(stack[Len(stack)]) > 0
  /\ LET obj == Head(stack[Len(stack)])[1]
         state == Head(stack[Len(stack)])[2]
         yld == Head(stack[Len(stack)])[3]
         rest == [stack EXCEPT ![Len(stack)] = Tail(stack[Len(stack)])]
     IN /\ out' = IF Yields(yld) THEN Append(out, obj) ELSE out
        /\ IF Descends(state, yld)
           THEN stack' = Append(rest, succ[obj]) /\ calls' = calls \cup {obj}
           ELSE stack' = rest /\ calls' = calls
  /\ UNCHANGED <<object, method, elt, result, position, pc, known, todo, current_level,
                 idx, next_level, depth, A, B, levels>>

\* a slip: the first exhausted generator ends the iteration
GB_PopAll ==
  /\ pc = "backtrack"
  /\ Len(stack) > 0
  /\ Len(stack[Len(stack)]) = 0
  /\ stack' = <<>>
  /\ pc' = "done"
  /\ UNCHANGED <<object, method, elt, result, position, out, calls, known, todo,
                 current_level, idx, next_level, depth, A, B, levels>>

\* StopIteration: stack.pop(); done = len(stack) == 0
GB_Pop ==
  /\ pc = "backtrack"
  /\ Len(stack) > 0
  /\ Len(stack[Len(stack)]) = 0
  /\ stack' = SubSeq(stack, 1, Len(stack) - 1)
  /\ pc' = IF Len(stack') = 0 THEN "done" ELSE "backtrack"
  /\ UNCHANGED <<object, method, elt, result, position, out, calls, known, todo,
                 current_level, idx, next_level, depth, A, B, levels>>

\* the search trees: the father of object n is f[n] < n, 0 being the initial data
BacktrackTrees ==
  {f \in [1..BacktrackNodes -> 0..(BacktrackNodes - 1)] : \A n \in 1..BacktrackNodes : f[n] < n}

\* the triples: state[n] says whether the state given with object n is not
\* None (it is then n), yld[n] is the flag given with it
Triples(l, state, yld) == [i \in 1..Len(l) |-> <<l[i], IF state[l[i]] THEN l[i] ELSE None, yld[l[i]]>>]

RecOf(f, state, yld) ==
  [n \in 0..BacktrackNodes |-> Triples(Asc({m \in 1..BacktrackNodes : f[m] = n}), state, yld)]

InitBacktrack ==
  \E f \in BacktrackTrees, state \in [1..BacktrackNodes -> BOOLEAN],
     yld \in [1..BacktrackNodes -> BOOLEAN] :
    GenericBacktracker(0, 1, RecOf(f, state, yld))

NextBacktrack == GB_iter \/ GB_Next \/ GB_Pop

SpecBacktrack == InitBacktrack /\ [][NextBacktrack]_vars

\* what the list l of triples and the subtrees below them give: an object is
\* there if its flag is True, its subtree if its state is not None
RECURSIVE Emitted(_)
Emitted(l) ==
  IF l = <<>> THEN <<>>
  ELSE (IF Head(l)[3] = TRUE THEN <<Head(l)[1]>> ELSE <<>>)
         \o (IF Head(l)[2] # None THEN Emitted(succ[Head(l)[1]]) ELSE <<>>)
         \o Emitted(Tail(l))

\* the objects _rec is to be called on: those got with a state that is not
\* None, below the initial data and below such objects
RECURSIVE Explored(_)
Explored(l) ==
  IF l = <<>> THEN {}
  ELSE (IF Head(l)[2] # None THEN {Head(l)[1]} \cup Explored(succ[Head(l)[1]]) ELSE {})
         \cup Explored(Tail(l))

\* C22: of every triple (object, state, yld) that _rec gives, the object is
\* yielded if and only if yld is True, and _rec(object, state) is explored if
\* and only if state is not None, the one whatever the other: what is yielded
\* is the list of the objects with a True flag in the tree cut below the
\* objects with state None, and _rec is called on the initial data and on
\* the objects with a state in this tree, never below a pruned object.
C22_BacktrackerYieldAndDescend ==
  cls = "GenericBacktracker" =>
    /\ IsPrefix(out, Emitted(succ[args.initial_data]))
    /\ calls \subseteq {args.initial_data} \cup Explored(succ[args.initial_data])
    /\ pc = "done" =>
         /\ out = Emitted(succ[args.initial_data])
         /\ calls = {args.initial_data} \cup Explored(succ[args.initial_data])

\* an iteration has ended in which an object with flag False and a state was
\* not yielded, and its child, with flag True and state None, was yielded, and
\* _rec was not called on this child, which has a child of its own
C22_Witness ==
  /\ cls = "GenericBacktracker" /\ pc = "done"
  /\ \E a, b \in 1..BacktrackNodes :
       /\ <<a, a, FALSE>> \in Range(succ[0])
       /\ <<b, None, TRUE>> \in Range(succ[a])
       /\ succ[b] # <<>>
       /\ a \notin Range(out) /\ b \in Range(out)
       /\ a \in calls /\ b \notin calls
       /\ \A i \in 1..Len(succ[b]) : succ[b][i][1] \notin Range(out)

(***************************************************************************)
(* fast_vector_partitions.py: vectors are lists of integers, a partition   *)
(* is a list of vectors, and every function is computed as its code does.  *)
(***************************************************************************)
MaxDim == 3
MaxSum == 5
BoxSum == 4

\* Python's comparison of two lists: the first differing entry decides, and
\* a proper prefix is the smaller list.
RECURSIVE LexLess(_, _)
LexLess(a, b) ==
  IF a = <<>> THEN b # <<>>
  ELSE IF b = <<>> THEN FALSE
  ELSE IF a[1] # b[1] THEN a[1] < b[1]
  ELSE LexLess(Tail(a), Tail(b))

LexLeq(a, b) == ~LexLess(b, a)

\* functools.reduce(operator.and_, map(operator.le, v, w))
dickson_le(v, w) == \A i \in DOMAIN v : v[i] <= w[i]

\* (len(v) - 1)*[0] + [1]
vector_unit(v) == [i \in 1..(Len(v) - 1) |-> 0] \o <<1>>

vector_minus_reversed(a, b) == [i \in DOMAIN a |-> b[i] - a[i]]

\* list(map(operator.sub, a, b))
vector_minus(a, b) == [i \in DOMAIN a |-> a[i] - b[i]]

\* list(map(min, a, b))
vector_clip(a, b) == [i \in DOMAIN a |-> IF a[i] <= b[i] THEN a[i] ELSE b[i]]

vector_halve_all(v) == [i \in DOMAIN v |-> v[i] \div 2]

vector_whole(v) == v

\* Entries are halved up to and including the first odd one; what follows
\* the first odd entry is copied.
RECURSIVE vector_halve(_)
vector_halve(v) ==
  IF v = <<>> THEN <<>>
  ELSE IF Head(v) % 2 # 0 THEN <<Head(v) \div 2>> \o Tail(v)
  ELSE <<Head(v) \div 2>> \o vector_halve(Tail(v))

\* range(n, -1, -1)
Countdown(n) == [i \in 1..(n + 1) |-> n + 1 - i]

RECURSIVE Flatten(_)
Flatten(ll) == IF ll = <<>> THEN <<>> ELSE Head(ll) \o Flatten(Tail(ll))

\* [aa + [bb] for aa in a for bb in b]
within_step(a, b) ==
  Flatten([i \in DOMAIN a |-> [j \in DOMAIN b |-> a[i] \o <<b[j]>>]])

RECURSIVE within_reduce(_, _)
within_reduce(a, v) ==
  IF v = <<>> THEN a
  ELSE within_reduce(within_step(a, Countdown(Head(v))), Tail(v))

within(v) ==
  within_reduce([i \in 1..(v[1] + 1) |-> <<Countdown(v[1])[i]>>], Tail(v))

\* for v in within(m): if e <= v <= s: result += [v]
debug_within_from_to(m, s, e) ==
  SelectSeq(within(m), LAMBDA v : LexLeq(e, v) /\ LexLeq(v, s))

\* a slip: o + [x]
Suffixed(x, o) == [i \in DOMAIN o |-> o[i] \o <<x>>]

\* result += [[x] + o] for every o of out
Prefixed(x, o) == [i \in DOMAIN o |-> <<x>> \o o[i]]

\* a slip: the flags are not used, every vector of the box is listed
within_unclamped(m, s, e, useS, useE) == within(m)

RECURSIVE recursive_within_from_to(_, _, _, _, _)
RECURSIVE within_loop(_, _, _, _, _, _, _)
\* The passes of `for x in range(start, end - 1, -1)` from x on.
within_loop(x, end, m, s, e, useS, useE) ==
  IF x < end THEN <<>>
  ELSE LET useSS == useS /\ x = s[1]
           useEE == useE /\ x = e[1]
           here == IF Len(m) > 1
                   THEN Prefixed(x, recursive_within_from_to(
                                      Tail(m), Tail(s), Tail(e), useSS, useEE))
                   ELSE << <<x>> >>
       IN here \o within_loop(x - 1, end, m, s, e, useS, useE)

recursive_within_from_to(m, s, e, useS, useE) ==
  LET start == IF useS THEN s[1] ELSE m[1]
      end == IF useE THEN e[1] ELSE 0
  IN within_loop(start, end, m, s, e, useS, useE)

within_from_to(m, s, e) ==
  LET ss == IF ~dickson_le(s, m) THEN vector_clip(s, m) ELSE s
  IN IF LexLess(ss, e) THEN <<>>
     ELSE recursive_within_from_to(m, ss, e, TRUE, TRUE)

Prepended(list, more) == more \o list

\* result += ...
Appended(list, more) == list \o more

RECURSIVE recursive_vector_partitions(_, _)
recursive_vector_partitions(v, vL) ==
  LET vspan == within_from_to(v, vector_halve(v), vL)
  IN Appended(<< <<v>> >>,
       Flatten([k \in DOMAIN vspan |->
         Prefixed(vspan[k],
           recursive_vector_partitions(vector_minus(v, vspan[k]), vspan[k]))]))

IsZero(v) == \A i \in DOMAIN v : v[i] = 0

\* With vL the zero vector, vspan holds the zero vector and the call made for
\* it has the arguments of its caller: the recursion has no end.
Unbounded(v, vL) == IsZero(vL)

\* min=None
Omitted == <<-1>>

SameLengthOrLonger(v, min) == Len(v) <= Len(min)

SameLength(v, min) == Len(v) = Len(min)

Returned(v, vL) ==
  IF Unbounded(v, vL)
  THEN [returns |-> "RuntimeError", value |-> <<>>, entered |-> {<<v, vL>>}]
  ELSE [returns |-> "list", value |-> recursive_vector_partitions(v, vL),
        entered |-> {<<v, vL>>}]

fast_vector_partitions(v, min) ==
  IF min = Omitted THEN Returned(v, vector_unit(v))
  ELSE IF SameLength(v, min) THEN Returned(v, min)
  ELSE [returns |-> "None", value |-> <<>>, entered |-> {}]

\* The call fast_vector_partitions(v, min): result is what it returns (or
\* the error it raises), out the list, calls the arguments handed to
\* recursive_vector_partitions.
FVP_Call ==
  /\ pc = "constructed"
  /\ cls = "fast_vector_partitions"
  /\ LET r == fast_vector_partitions(args.v, args.min)
     IN /\ result' = r.returns
        /\ out' = r.value
        /\ calls' = r.entered
  /\ pc' = "returned"
  /\ method' = "fast_vector_partitions"
  /\ UNCHANGED <<object, stack, known, todo, current_level, idx, next_level,
                 depth, A, B, levels, elt, position>>

\* The call within_from_to(m, s, e).
WFT_Call ==
  /\ pc = "constructed"
  /\ cls = "within_from_to"
  /\ out' = within_from_to(args.m, args.s, args.e)
  /\ result' = "list"
  /\ pc' = "returned"
  /\ method' = "within_from_to"
  /\ UNCHANGED <<object, stack, calls, known, todo, current_level, idx,
                 next_level, depth, A, B, levels, elt, position>>

\* The lists of d non-negative integers of sum at most n.
RECURSIVE VectorsUpTo(_, _)
VectorsUpTo(d, n) ==
  IF d = 0 THEN {<<>>}
  ELSE UNION {{<<x>> \o t : t \in VectorsUpTo(d - 1, n - x)} : x \in 0..n}

Vectors == UNION {VectorsUpTo(d, MaxSum) : d \in 1..MaxDim}

BoxVectors(d) == VectorsUpTo(d, BoxSum)

DoctestVector == <<2, 2, 2>>

DoctestMins == {<<1, 1, 1>>, <<1, 1, 0>>, <<1, 0, 1>>}

Call(f, given) == Object(<<>>, <<>>, f, "None", Inf, given, <<>>)

InitPartitions ==
  \/ \E v \in Vectors, min \in Vectors \cup {Omitted} :
       Call("fast_vector_partitions", [v |-> v, min |-> min])
  \/ \E min \in DoctestMins \cup {Omitted} :
       Call("fast_vector_partitions", [v |-> DoctestVector, min |-> min])

NextPartitions == FVP_Call

SpecPartitions == InitPartitions /\ [][NextPartitions]_vars

InitWithin ==
  \E d \in 1..MaxDim : \E m \in BoxVectors(d), s \in BoxVectors(d),
                          e \in BoxVectors(d) :
    Call("within_from_to", [m |-> m, s |-> s, e |-> e])

NextWithin == WFT_Call

SpecWithin == InitWithin /\ [][NextWithin]_vars

(***************************************************************************)
(* Vocabulary of the claims on vector partitions.                          *)
(***************************************************************************)
RECURSIVE VectorSum(_, _)
VectorSum(p, zero) ==
  IF p = <<>> THEN zero
  ELSE [i \in DOMAIN zero |-> Head(p)[i] + VectorSum(Tail(p), zero)[i]]

Zero(v) == [i \in DOMAIN v |-> 0]

\* The vectors of non-negative integers that are coordinatewise <= v.
RECURSIVE Box(_)
Box(v) ==
  IF v = <<>> THEN {<<>>}
  ELSE {<<x>> \o t : x \in 0..Head(v), t \in Box(Tail(v))}

RECURSIVE Insert(_, _)
Insert(x, p) ==
  IF p = <<>> THEN <<x>>
  ELSE IF LexLeq(x, Head(p)) THEN <<x>> \o p
  ELSE <<Head(p)>> \o Insert(x, Tail(p))

\* A multiset of vectors is written as the list of its members in
\* non-decreasing lexicographic order.
RECURSIVE Multiset(_)
Multiset(p) == IF p = <<>> THEN <<>> ELSE Insert(Head(p), Multiset(Tail(p)))

\* Brute force: every multiset of non-zero vectors of sum v is one part x
\* and a multiset of sum v - x.
RECURSIVE AllPartitions(_)
AllPartitions(v) ==
  IF IsZero(v) THEN {<<>>}
  ELSE UNION {{Insert(x, p) : p \in AllPartitions(vector_minus(v, x))} :
               x \in Box(v) \ {Zero(v)}}

Partitions == cls = "fast_vector_partitions" /\ pc = "returned"

\* C23: every partition returned by fast_vector_partitions(v), with min or
\* without, has parts of coordinatewise sum exactly v, and each of its parts
\* has non-negative coordinates and is coordinatewise <= v.
C23_PartsSumToV ==
  (Partitions /\ result = "list") =>
    \A i \in DOMAIN out :
      /\ VectorSum(out[i], Zero(args.v)) = args.v
      /\ \A j \in DOMAIN out[i] :
           /\ dickson_le(out[i][j], args.v)
           /\ dickson_le(Zero(args.v), out[i][j])

C23_Witness ==
  /\ Partitions
  /\ args.min # Omitted
  /\ Len(out) >= 3
  /\ \E i \in DOMAIN out : Len(out[i]) >= 3

\* C24: for a non-zero v and min omitted, the returned list is complete and
\* free of duplicates: its partitions, read as multisets, are exactly the
\* multisets of non-zero vectors of sum v that brute force finds, and no
\* two of them are the same multiset.
C24_CompleteNoDuplicates ==
  (Partitions /\ args.min = Omitted /\ ~IsZero(args.v)) =>
    /\ {Multiset(out[i]) : i \in DOMAIN out} = AllPartitions(args.v)
    /\ \A i, j \in DOMAIN out : Multiset(out[i]) = Multiset(out[j]) => i = j

C24_Witness ==
  /\ Partitions
  /\ args.min = Omitted
  /\ Len(args.v) >= 2
  /\ args.v[1] % 2 = 1
  /\ vector_halve(args.v) # vector_halve_all(args.v)
  /\ Len(out) >= 4

\* C25: with a bound m of the length of v, the returned partitions are
\* exactly the partitions of fast_vector_partitions(v) whose parts are all
\* lexicographically >= m (none has a part below m, also when v itself is
\* below m, and none that qualifies is missing).
C25_MinSelects ==
  (Partitions /\ args.min # Omitted /\ SameLength(args.v, args.min)) =>
    /\ result = "list"
    /\ Range(out) =
         {p \in Range(fast_vector_partitions(args.v, Omitted).value) :
            \A j \in DOMAIN p : LexLeq(args.min, p[j])}

TwoPartitions == << <<DoctestVector>>, << <<1, 1, 1>>, <<1, 1, 1>> >> >>

\* C26 (as stated): fast_vector_partitions([2,2,2]), min omitted, returns
\* exactly the 2 partitions [[2,2,2]] and [[1,1,1],[1,1,1]].
C26_DoctestTwoPartitions ==
  (Partitions /\ args.v = DoctestVector /\ args.min = Omitted) =>
    out = TwoPartitions

\* C26 (amended): the 2 partitions [[2,2,2]] and [[1,1,1],[1,1,1]] are what
\* is returned for [2,2,2] with the bound [1,1,1]; with min omitted they are
\* two of the more than 2 partitions returned.
C26_DoctestWithBound ==
  (Partitions /\ args.v = DoctestVector) =>
    /\ args.min = <<1, 1, 1>> => out = TwoPartitions
    /\ args.min = Omitted =>
         Len(out) > 2 /\ Range(TwoPartitions) \subseteq Range(out)

C26_Witness ==
  Partitions /\ args.v = DoctestVector /\ args.min = <<1, 1, 1>> /\ Len(out) = 2

\* C27: with min omitted, no returned partition has the zero vector as a
\* part, whatever the vector v of non-negative integers.
C27_NoZeroPart ==
  (Partitions /\ args.min = Omitted) =>
    \A i \in DOMAIN out : \A j \in DOMAIN out[i] : ~IsZero(out[i][j])

\* C28: for m, s, e of one length, s inside the box of m or not,
\* within_from_to(m, s, e) is the list debug_within_from_to(m, s, e): the
\* vectors x with e <= x <= s lexicographically and x <= m coordinatewise,
\* each once, in strictly decreasing lexicographic order.
C28_WithinMatchesDebug ==
  (cls = "within_from_to" /\ pc = "returned") =>
    /\ out = debug_within_from_to(args.m, args.s, args.e)
    /\ Range(out) = {x \in Box(args.m) : LexLeq(args.e, x) /\ LexLeq(x, args.s)}
    /\ \A i, j \in DOMAIN out : i < j => LexLess(out[j], out[i])

\* C29: with a min of another length than v, fast_vector_partitions returns
\* None, raises nothing and does not enter the recursion.
C29_LengthMismatchGivesNone ==
  (Partitions /\ args.min # Omitted /\ Len(args.min) # Len(args.v)) =>
    result = "None" /\ out = <<>> /\ calls = {}

C29_Witness ==
  /\ Partitions
  /\ args.min # Omitted
  /\ Len(args.min) > Len(args.v)
  /\ result = "None"

\* C30: the returned list starts with the trivial partition [v], and the
\* first parts of the partitions after it never increase lexicographically
\* (so the partitions of one first part are contiguous).
C30_Ordered ==
  (Partitions /\ result = "list") =>
    /\ out[1] = <<args.v>>
    /\ \A i, j \in 2..Len(out) : i < j => LexLeq(out[j][1], out[i][1])

C30_Witness ==
  /\ Partitions
  /\ result = "list"
  /\ \E i \in 2..(Len(out) - 2) :
       out[i][1] = out[i + 1][1] /\ out[i + 1][1] # out[i + 2][1]

-----------------------------------------------------------------------------
(* RecursiveSet with structure='graded' on a relation that is not graded.  *)
\* lambda a: [a-1, a+1] with the seed 0 of the warning in the docstring of
\* RecursiveSet, the integers written a + DoctestSeed (0 is None here): the
\* relation is DoctestNeighbours, the seed DoctestSeed.  The levels up to
\* DoctestLevels - 2 are visited inside DoctestWindow.
InitUngraded ==
  \/ \E sc \in Relations, sd \in SeedLists, md \in 0..MaxDepthArg :
       Constructed(sd, sc, "graded", "None", md) /\ ~IsGraded
  \/ \E md \in 0..(DoctestLevels - 2) :
       Constructed(<<DoctestSeed>>, DoctestNeighbours, "graded", "None", md)

NextUngraded == Breadth_iter \/ Breadth_Visit \/ Breadth_NextLevel

SpecUngraded == InitUngraded /\ [][NextUngraded]_vars

DoctestUngraded == seeds = <<DoctestSeed>> /\ succ = DoctestNeighbours

\* C31: structure='graded' on a relation that is not graded is not detected:
\* no error is raised, the level yielded at depth d is the set got by
\* applying succ d times to the seeds, whether or not its elements were
\* yielded before; for succ(a) = [a-1, a+1] and the seed 0 the output is 0,
\* then 1 and -1, then 0, 2 and -2: 0 is yielded at depth 0 and again at
\* depth 2.
C31_UngradedNotDetected ==
  cls = "RecursiveSet_graded" =>
    /\ pc \in {"constructed", "level", "done"}
    /\ pc = "level" => Range(current_level) = LevelSet(depth)
    /\ DoctestUngraded =>
         /\ Len(out) >= 1 => out[1] = DoctestSeed
         /\ Len(out) >= 3 =>
              {out[2], out[3]} = {DoctestSeed + 1, DoctestSeed - 1}
         /\ Len(out) >= 6 =>
              {out[4], out[5], out[6]} =
                {DoctestSeed, DoctestSeed + 2, DoctestSeed - 2}

C31_Witness ==
  /\ cls = "RecursiveSet_graded"
  /\ DoctestUngraded
  /\ Len(out) >= 6
  /\ Count(out, DoctestSeed) = 2
  /\ depth = 2

\* The arguments of the calls of recursive_vector_partitions made, at any
\* depth, below the call with the arguments v and vL.
RECURSIVE RecursiveCalls(_, _)
RecursiveCalls(v, vL) ==
  LET vspan == within_from_to(v, vector_halve(v), vL)
  IN UNION {{<<vector_minus(v, vspan[k]), vspan[k]>>}
              \cup RecursiveCalls(vector_minus(v, vspan[k]), vspan[k]) :
            k \in DOMAIN vspan}

\* C32: for every p coordinatewise <= v, p is lexicographically <=
\* vector_halve(v) exactly when p is lexicographically <= v - p; so every
\* recursive call recursive_vector_partitions(v - p, p) has v - p >= p
\* lexicographically; and vector_halve(v) is coordinatewise <= v.
C32_HalvingProperty ==
  Partitions =>
    /\ \A p \in Box(args.v) :
         LexLeq(p, vector_halve(args.v)) <=> LexLeq(p, vector_minus(args.v, p))
    /\ dickson_le(vector_halve(args.v), args.v)
    /\ result = "list" =>
         \A top \in calls : \A call \in RecursiveCalls(top[1], top[2]) :
           LexLeq(call[2], call[1])

C32_Witness ==
  /\ Partitions
  /\ result = "list"
  /\ vector_halve(args.v) # vector_halve_all(args.v)
  /\ \E top \in calls : \E call \in RecursiveCalls(top[1], top[2]) :
       /\ LexLess(vector_halve_all(args.v), call[2])
       /\ RecursiveCalls(call[1], call[2]) # {}

\* The call recursive_within_from_to(m, s, e, useS, useE).
RWFT_Call ==
  /\ pc = "constructed"
  /\ cls = "recursive_within_from_to"
  /\ out' = recursive_within_from_to(args.m, args.s, args.e, args.useS, args.useE)
  /\ result' = "list"
  /\ pc' = "returned"
  /\ method' = "recursive_within_from_to"
  /\ UNCHANGED <<object, stack, calls, known, todo, current_level, idx,
                 next_level, depth, A, B, levels, elt, position>>

\* The first call, as the function expects it: s inside the box of m, e not
\* above s, both flags True.
InitRecursiveWithin ==
  \E d \in 1..MaxDim : \E m \in BoxVectors(d), s \in BoxVectors(d),
                          e \in BoxVectors(d) :
    /\ dickson_le(s, m)
    /\ LexLeq(e, s)
    /\ Call("recursive_within_from_to",
            [m |-> m, s |-> s, e |-> e, useS |-> TRUE, useE |-> TRUE])

NextRecursiveWithin == RWFT_Call

SpecRecursiveWithin == InitRecursiveWithin /\ [][NextRecursiveWithin]_vars

\* C33: called with s inside the box of m, e lexicographically <= s and both
\* flags True, recursive_within_from_to returns exactly the vectors x of the
\* box of m with e <= x <= s lexicographically, in strictly decreasing
\* lexicographic order, e inside the box of m or not: the list of
\* debug_within_from_to, which tests every vector of the box.
C33_ClampingMatchesFilter ==
  (cls = "recursive_within_from_to" /\ pc = "returned") =>
    /\ out = debug_within_from_to(args.m, args.s, args.e)
    /\ Range(out) = {x \in Box(args.m) : LexLeq(args.e, x) /\ LexLeq(x, args.s)}
    /\ \A i, j \in DOMAIN out : i < j => LexLess(out[j], out[i])

C33_Witness ==
  /\ cls = "recursive_within_from_to"
  /\ pc = "returned"
  /\ ~dickson_le(args.e, args.m)
  /\ Len(out) >= 3
  /\ Len(out) < Cardinality(Box(args.m)) - 2
  /\ out[1] = args.s

\* C34: in every partition returned by recursive_vector_partitions(v, vL)
\* the parts are listed in non-decreasing lexicographic order, the first
\* part the smallest and the last the largest: a returned partition is the
\* canonical list of its multiset.
C34_PartsNonDecreasing ==
  (Partitions /\ result = "list") =>
    \A i \in DOMAIN out :
      /\ \A j, k \in DOMAIN out[i] : j < k => LexLeq(out[i][j], out[i][k])
      /\ out[i] = Multiset(out[i])

C34_Witness ==
  /\ Partitions
  /\ result = "list"
  /\ Len(args.v) >= 2
  /\ \E i \in DOMAIN out :
       /\ Len(out[i]) >= 3
       /\ LexLess(out[i][1], out[i][2])
       /\ LexLess(out[i][2], out[i][3])

-----------------------------------------------------------------------------
(* Termination of GenericBacktracker.__iter__: the loop takes its next     *)
(* pass whenever it can.                                                   *)
SpecBacktrackFair == SpecBacktrack /\ WF_vars(NextBacktrack)

\* One pass of the loop, seen on the stack: the top generator is advanced
\* (and the generator of the object it gave may be pushed above it), or the
\* top generator, exhausted, is popped; the generators below are untouched.
StackStep ==
  LET n == Len(stack)
  IN \/ pc = "constructed" /\ Len(stack') = 1
     \/ /\ n > 0
        /\ stack[n] # <<>>
        /\ Len(stack') \in {n, n + 1}
        /\ stack'[n] = Tail(stack[n])
        /\ SubSeq(stack', 1, n - 1) = SubSeq(stack, 1, n - 1)
        /\ Len(stack') = n + 1 => stack'[n + 1] = succ[Head(stack[n])[1]]
        /\ pc' = "backtrack"
     \/ /\ n > 0
        /\ stack[n] = <<>>
        /\ stack' = SubSeq(stack, 1, n - 1)
        /\ pc' = "done" <=> n = 1

\* C35: GenericBacktracker searches depth first with a stack of _rec
\* generators: every pass advances the top generator or pops it, pops it
\* exactly when it is exhausted and goes on with the generator below; the
\* iteration is over exactly when the stack is empty; on every finite search
\* tree it ends, and the objects come out in pre-order of the explored tree.
C35_BacktrackerDepthFirstTerminates ==
  /\ [](cls = "GenericBacktracker" =>
          /\ pc = "done" <=> (pc # "constructed" /\ stack = <<>>)
          /\ IsPrefix(out, Emitted(succ[args.initial_data]))
          /\ pc = "done" => out = Emitted(succ[args.initial_data]))
  /\ [][StackStep]_vars
  /\ <>(pc = "done")

\* the iteration is over; it yielded 1, then 2 from the generator of 1, and,
\* that generator popped, 3 from the generator of the initial data
C35_Witness ==
  /\ cls = "GenericBacktracker"
  /\ pc = "done"
  /\ out = <<1, 2, 3>>
  /\ Len(succ[args.initial_data]) = 2
  /\ Len(succ[1]) = 1

-----------------------------------------------------------------------------
(* Termination of search_forest_iterator: the loop takes its next pass     *)
(* whenever it can.                                                        *)
SpecForestFair == SpecForest /\ WF_vars(NextForest)

\* the place in the stack of the cursor a pass polls
Polled == IF algorithm = "depth" THEN Len(stack) ELSE 1

\* One pass of the loop: a node not yielded before is yielded and one cursor
\* over its children is pushed, or the polled cursor, exhausted, is removed.
ForestStep ==
  \/ pc = "constructed" /\ stack' = <<seeds>> /\ out' = out
  \/ /\ pc = "forest"
     /\ stack[Polled] # <<>>
     /\ Head(stack[Polled]) \notin Range(out)
     /\ out' = Append(out, Head(stack[Polled]))
     /\ stack' = Append([stack EXCEPT ![Polled] = Tail(stack[Polled])],
                        succ[Head(stack[Polled])])
     /\ pc' = "forest"
  \/ /\ pc = "forest"
     /\ stack[Polled] = <<>>
     /\ out' = out
     /\ stack' = RemoveAt(stack, Polled)
     /\ pc' = "done" <=> stack' = <<>>

\* C36: on every finite forest, in depth and in breadth mode,
\* search_forest_iterator comes to its end, and only with an empty stack of
\* cursors; every pass yields one new node and pushes one cursor over its
\* children, or removes the polled cursor (the top one in depth mode, the
\* bottom one in breadth mode), which is then exhausted.
C36_ForestIteratorTerminates ==
  /\ [](cls = "SearchForest" =>
          /\ pc \in {"constructed", "forest", "done"}
          /\ pc = "done" => stack = <<>>
          /\ pc = "forest" => stack # <<>>)
  /\ [][ForestStep]_vars
  /\ <>(pc = "done")

\* a breadth first iteration is over on a forest of two roots in which a
\* cursor was removed from the bottom of a stack of several cursors
C36_Witness ==
  /\ cls = "SearchForest"
  /\ pc = "done"
  /\ algorithm = "breadth"
  /\ Len(seeds) = 2
  /\ Len(out) = ForestNodes
  /\ out # Preorder(seeds)

-----------------------------------------------------------------------------
(* The graded and the symmetric iterators on the structures they are made  *)
(* for, asked for their elements as long as they have some.                *)
InitLevels ==
  \/ \E sc \in Relations, sd \in SeedLists, md \in DepthArgs :
       Constructed(sd, sc, "graded", "None", md) /\ IsGraded
  \/ InitSym

NextLevels == NextBreadth \/ NextSym

SpecLevels == InitLevels /\ [][NextLevels]_vars

SpecLevelsFair == SpecLevels /\ WF_vars(NextLevels)

\* the structure declared holds, and max_depth is left at its default
DeclaredHolds ==
  /\ max_depth = Inf
  /\ \/ cls = "RecursiveSet_graded" /\ IsGraded
     \/ cls = "RecursiveSet_symmetric" /\ IsSymmetric

\* the largest distance of a reachable element from the seeds
LastDepth == CHOOSE d \in 0..Cardinality(DOMAIN succ) :
               DistSet(d) # {} /\ \A k \in 0..Cardinality(DOMAIN succ) : DistSet(k) # {} => k <= d

\* C37: on a finite reachable set, the declared structure holding and
\* max_depth being infinite, the graded and the symmetric iterator come to a
\* normal end right after the last level that is not empty: no error is
\* raised, the step that ends the iteration yields nothing, and at the end
\* everything reachable has been yielded, an element of the last level last.
C37_LevelsEndNormally ==
  /\ [](DeclaredHolds =>
          /\ pc \in {"constructed", "level", "while", "for", "done"}
          /\ pc = "done" =>
               /\ Range(out) = Closure
               /\ out # <<>> => out[Len(out)] \in DistSet(LastDepth))
  /\ [][(DeclaredHolds /\ pc' = "done") => out' = out]_vars
  /\ DeclaredHolds => <>(pc = "done")

\* a symmetric iteration with the default max_depth is over after three
\* levels or more
C37_Witness ==
  /\ DeclaredHolds
  /\ cls = "RecursiveSet_symmetric"
  /\ pc = "done"
  /\ Len(levels) >= 3
  /\ Len(out) >= 3

-----------------------------------------------------------------------------
(* Two iterators on one object.  An iterator is a generator: its locals    *)
(* are kept in its frame while it is suspended, and one iterator runs at a *)
(* time.                                                                   *)
SharedNodes == 3
SharedEdges == 3

\* the locals of the running iterator
Frame ==
  [pc |-> pc, stack |-> stack, out |-> out, calls |-> calls, known |-> known,
   todo |-> todo, current_level |-> current_level, idx |-> idx,
   next_level |-> next_level, depth |-> depth, A |-> A, B |-> B,
   levels |-> levels, method |-> method, elt |-> elt, result |-> result,
   position |-> position]

\* the locals of an iterator that was not asked for an element yet
FreshFrame ==
  [pc |-> "constructed", stack |-> <<>>, out |-> <<>>, calls |-> {},
   known |-> {}, todo |-> {}, current_level |-> <<>>, idx |-> 1,
   next_level |-> {}, depth |-> 0, A |-> {}, B |-> <<>>, levels |-> <<>>,
   method |-> "None", elt |-> None, result |-> "None", position |-> 0]

\* a slip: the set is an attribute of the object, the iterators share it
SharedOnSelf(own, shared) == shared

\* known = set(...): the set is made by the iterator and held in a local
Local(own, shared) == own

\* iter(S) once more: the suspended iterator, if there is one, is abandoned,
\* and an iterator that has not begun takes its place
Iter_Create ==
  /\ cls \in {"RecursiveSet", "SearchForest"}
  /\ other # FreshFrame
  /\ other' = FreshFrame
  /\ UNCHANGED <<seeds, succ, args, cls, algorithm, max_depth, post_process,
                 pc, stack, out, calls, known, todo, current_level, idx,
                 next_level, depth, A, B, levels, method, elt, result, position>>

\* the consumer asks the other iterator: the running one is suspended
Iter_Switch ==
  /\ other # <<>>
  /\ other' = Frame
  /\ pc' = other.pc
  /\ stack' = other.stack
  /\ out' = other.out
  /\ calls' = other.calls
  /\ known' = Local(other.known, known)
  /\ todo' = other.todo
  /\ current_level' = other.current_level
  /\ idx' = other.idx
  /\ next_level' = other.next_level
  /\ depth' = other.depth
  /\ A' = other.A
  /\ B' = other.B
  /\ levels' = other.levels
  /\ method' = other.method
  /\ elt' = other.elt
  /\ result' = other.result
  /\ position' = other.position
  /\ UNCHANGED <<seeds, succ, args, cls, algorithm, max_depth, post_process>>

SharedRelations ==
  {SuccOf(E, SharedNodes) :
     E \in EdgeSets((1..SharedNodes) \X (1..SharedNodes), SharedEdges)}

SharedForests ==
  {f \in [1..SharedNodes -> 0..(SharedNodes - 1)] : \A n \in 1..SharedNodes : f[n] < n}

ForestChildren(f, n) == Asc({k \in 1..SharedNodes : f[k] = n})

\* seeds given as a list: a RecursiveSet searched naively or breadth first,
\* a SearchForest searched depth or breadth first
InitShared ==
  \/ \E sc \in SharedRelations, sd \in {<<1>>, <<1, 2>>}, alg \in {"None", "breadth"} :
       Constructed(sd, sc, "None", alg, Inf)
  \/ \E f \in SharedForests, alg \in {"None", "breadth"} :
       Constructed(ForestChildren(f, 0),
                   [n \in 1..SharedNodes |-> ForestChildren(f, n)],
                   "forest", alg, Inf)

NextShared ==
  \/ Iter_Create \/ Iter_Switch
  \/ NextNaive \/ NextBreadth \/ NextForest

SpecShared == InitShared /\ [][NextShared]_vars

\* what an iterator that runs alone on the object can have yielded when its
\* locals are f
Alone(f) ==
  /\ f.pc \in {"constructed", "naive", "level", "forest", "done"}
  /\ cls = "SearchForest" =>
       LET T == IF algorithm = "depth" THEN Preorder(seeds) ELSE ByLevels(seeds)
       IN IsPrefix(f.out, T) /\ (f.pc = "done" => f.out = T)
  /\ cls = "RecursiveSet" =>
       /\ NoDup(f.out)
       /\ Range(f.out) \subseteq Closure
       /\ f.pc = "done" => Range(f.out) = Closure
       /\ \A i \in DOMAIN f.out :
            \/ f.out[i] \in Range(seeds)
            \/ \E j \in 1..(i - 1) : f.out[i] \in Succs(f.out[j])
       /\ algorithm = "breadth" =>
            /\ IsPrefix(SubSeq(f.out, 1, Min({Len(f.out), Len(seeds)})), seeds)
            /\ \A i, j \in DOMAIN f.out : i < j => Dist(f.out[i]) <= Dist(f.out[j])

\* C38: the state of a traversal belongs to the iterator: of two iterators
\* on one RecursiveSet or SearchForest, advanced in any interleaving, each
\* has yielded what an iterator running alone yields, also when the other
\* one was abandoned part-way and a new one was created.
C38_IteratorsIndependent ==
  cls \in {"RecursiveSet", "SearchForest"} =>
    /\ Alone(Frame)
    /\ other # <<>> => Alone(other)

\* a naive search is over while another one on the same set, begun before
\* it, is suspended part-way
C38_Witness ==
  /\ cls = "RecursiveSet"
  /\ algorithm = "naive"
  /\ pc = "done"
  /\ Len(out) = SharedNodes
  /\ other # <<>>
  /\ other.pc = "naive"
  /\ other.out # <<>>
  /\ Len(other.out) < Len(out)

-----------------------------------------------------------------------------
(* The naive search at its yield points.                                   *)

\* every element yielded so far is a seed or a successor of an element
\* yielded before it
YieldedFromEarlier(o) ==
  \A i \in DOMAIN o :
    \/ o[i] \in Range(seeds)
    \/ \E j \in 1..(i - 1) : o[i] \in Succs(o[j])

\* between two turns of the loop of naive_search_iterator
NaiveLoopHead ==
  /\ todo \subseteq known
  /\ Range(out) = known \ todo
  /\ known \subseteq Closure
  /\ YieldedFromEarlier(out)

\* one turn of the loop: x was popped and is yielded (todo without x, known
\* as it was); then the successors are added
NaiveYieldPoint ==
  (pc = "naive" /\ out' # out) =>
    LET x == out'[Len(out')]
        todoY == todo \ {x}
    IN /\ out' = Append(out, x)
       /\ x \in todo
       /\ todoY \subseteq known
       /\ Range(out') = known \ todoY
       /\ known \subseteq Closure
       /\ YieldedFromEarlier(out')
       /\ known \subseteq known'
       /\ (todo' \ todoY) \cap known = {}
       /\ todo' \ todoY \subseteq known'

\* C39: at every yield point of the naive search, whichever element was
\* popped: todo is a subset of known, the elements yielded so far are known
\* minus todo, every yielded element that is no seed is a successor of an
\* element yielded earlier, known is within the closure of the seeds; and an
\* element added to todo was never in todo before (it was not known, and
\* known only grows and holds all of todo).
C39_NaiveYieldInvariants ==
  /\ [](cls = "RecursiveSet" /\ algorithm = "naive" => NaiveLoopHead)
  /\ [][NaiveYieldPoint]_vars

\* a naive search is part-way: an element was yielded one of whose successors
\* had been yielded before it, another element is still to do
C39_Witness ==
  /\ cls = "RecursiveSet" /\ algorithm = "naive" /\ pc = "naive"
  /\ todo # {}
  /\ Range(out) \ Range(seeds) # {}
  /\ \E i, j \in DOMAIN out : j < i /\ out[j] \in Succs(out[i])

-----------------------------------------------------------------------------
(* TransitiveIdeal.                                                        *)
IdealNodes == 4
IdealEdges == 3

\* TransitiveIdeal.__iter__: return self.naive_search_iterator(), whatever
\* the algorithm the object keeps
TransitiveIdeal_iter ==
  /\ pc = "constructed"
  /\ cls = "TransitiveIdeal"
  /\ known' = Range(seeds)
  /\ todo' = Range(seeds)
  /\ pc' = IF Range(seeds) # {} THEN "naive" ELSE "done"
  /\ method' = "__iter__"
  /\ UNCHANGED <<object, elt, result, position, stack, out, calls,
                 current_level, idx, next_level, depth, A, B, levels>>

IdealRelations ==
  {SuccOf(E, IdealNodes) :
     E \in EdgeSets((1..IdealNodes) \X (1..IdealNodes), IdealEdges)}

\* lambda i: [mod(i+3,10), mod(i+5,10)] on the residues mod 10, written
\* DoctestSeed .. DoctestSeed + 9
DoctestMod ==
  [i \in DoctestSeed..(DoctestSeed + 9) |->
     <<DoctestSeed + ((i - DoctestSeed + 3) % 10),
       DoctestSeed + ((i - DoctestSeed + 5) % 10)>>]

InitIdeal ==
  \/ \E sc \in IdealRelations, g \in {<<>>, <<1>>, <<1, 2>>} : TransitiveIdeal(sc, g)
  \/ TransitiveIdeal(DoctestMod, <<DoctestSeed>>)

NextIdeal == TransitiveIdeal_iter \/ Naive_Step

SpecIdeal == InitIdeal /\ [][NextIdeal]_vars

\* the elements yielded among the first i that still have a successor not
\* yielded among the first i
Open(i) ==
  {j \in 1..i : Succs(out[j]) \ Range(SubSeq(out, 1, i)) # {}}

\* the place of the element yielded last among those of S
Latest(S) == CHOOSE m \in S : \A x \in S : x <= m

\* C40: TransitiveIdeal enumerates depth first: after an element is yielded,
\* the next element yielded is a not yet yielded successor of the most
\* recently yielded element that still has one.
C40_IdealDepthFirst ==
  cls = "TransitiveIdeal" =>
    \A i \in 1..(Len(out) - 1) :
      Open(i) # {} =>
        out[i + 1] \in Succs(out[Latest(Open(i))]) \ Range(SubSeq(out, 1, i))

====
